---------------------------- MODULE Spec2Model ----------------------------
(***************************************************************************)
(* A model of go-rag: the text chunker (internal/chunk), the ranker        *)
(* (internal/ranker), the Qdrant payload codec (internal/store), the       *)
(* response generator and its streaming wrapper (internal/generate) and    *)
(* directory ingestion (internal/ingest).                                  *)
(*                                                                         *)
(* Go strings are modelled as TLA+ strings; positions are 0-based as in    *)
(* the Go code (At, Slice).  Each component has its own variables and its  *)
(* own specification; a component's specification leaves the variables of  *)
(* the other components at their idle values.                              *)
(***************************************************************************)
EXTENDS Integers, Sequences, FiniteSets, TLC

VARIABLES
    \* ---- chunker (internal/chunk/chunk.go)
    svc,        \* the chunk.Service: [chunkSize, chunkOverlap]
    input,      \* the argument of ChunkText
    text,       \* ChunkText's local text after cleanText
    start,      \* ChunkText's local start
    chunks,     \* ChunkText's local chunks (the segments appended so far)
    wstarts,    \* history: the start of every window emitted so far
    cpc,        \* ChunkText's position: "idle", "call", "loop", "done"
    \* ---- ranker (internal/ranker/ranker.go)
    rquery,     \* the query given to RankChunks
    rchunks,    \* the chunks given to RankChunks
    ranked,     \* the slice RankChunks returned
    rpc,        \* "idle", "call", "done"
    \* ---- payload codec (internal/store: QdrantStore)
    kchunk,     \* the chunk given to StoreChunks
    kpoint,     \* the point held by Qdrant for that chunk
    korigin,    \* "store": kpoint was written by StoreChunks;
                \* "qdrant": kpoint is whatever the collection returned
    kresult,    \* what pointToDocumentChunk returned: [err, chunk]
    kerr,       \* the error StoreChunks returned ("" for nil)
    kpc,        \* "idle", "store", "upsert", "stored", "failed", "decoded"
    \* ---- generator (internal/generate/generate.go)
    gmode,      \* "direct": GenerateResponse is called; "stream": StreamResponse
    gquery,     \* the query argument
    gchunks,    \* the ranked chunks argument
    gpc,        \* position of the code that runs GenerateResponse: "idle",
                \* "call", "gen", "provider", "returned" (direct), and in the
                \* goroutine of StreamResponse "send", "close", "exit"
    gprompt,    \* the prompt of the provider call in flight
    gresult,    \* what GenerateResponse returned: [Response, Sources, err]
    providerCalls,  \* calls of client.CreateChatCompletion so far
    ctxCancelled,   \* the caller's context is cancelled
    cancelInFlight, \* history: the context was cancelled while the provider
                    \* call was in flight
    ch,         \* responseChan: the buffered values
    chClosed,   \* responseChan is closed
    sent,       \* history: number of sends on responseChan
    received,   \* the values the consumer received
    conspc,     \* the consumer ranging over the channel: "idle", "recv", "done"
    \* ---- ingestion (internal/ingest)
    isvc,       \* the chunk.Service of the ingest.Service
    dexists,    \* the directory of the request exists
    dfiles,     \* what scanDirectory enumerates: [path, readable, content]
    didx,       \* IngestDirectory's loop: the next file (1-based)
    dsuccess,   \* IngestDirectory's successfulIngestions
    derrors,    \* IngestDirectory's errors
    dresults,   \* history: the FileIngestResult of every processed file
    dstore,     \* the collection: chunk id -> stored chunk
    dresp,      \* the DirectoryIngestResponse returned
    dcur,       \* processFile in progress: its result and the chunks to store
    dpc,        \* "idle", "call", "loop", "embed", "upsert", "result", "done",
                \* "failed"
    \* ---- document ingestion (internal/ingest, internal/store): concurrent requests
    qsvc,       \* the chunk.Service of the ingest.Service
    qreq,       \* per request slot: the arguments [docID, content] of the call
    qpc,        \* per request slot: "idle", "embed", "upsert", "done", "failed"
    qchunks,    \* per request slot: IngestDocument's docChunks
    qret,       \* per request slot: what IngestDocument returned, [count, err]
    qext,       \* history, per slot: calls to the embedding provider and to
                \* Qdrant made by the current call
    qstore,     \* the collection: chunk id -> stored chunk
    qlog,       \* history: the requests whose upsert was applied, in that order
    qn,         \* number of calls started
    \* ---- the RAG query handler (pkg/httpapi)
    apc,        \* "idle", "bind", "retrieve", "search", "rank", "filter",
                \* "generate", "done"
    areq,       \* the request: [bindOk, Query, Limit, Threshold]
    achunks,    \* the chunks RetrieveRelevantChunks returned
    aranked,    \* rankedChunks
    atrace,     \* history: the stages invoked, in order
    aresp,      \* the response written: [Code, Error]
    acalls,     \* history: calls of the generation provider
    \* ---- collection management (internal/store CreateCollection)
    mpc,        \* "idle", "call", "list", "create", "done"
    marg,       \* the vectorSize argument of the call
    msize,      \* the local vectorSize
    mdims,      \* embeddingService.GetDimensions()
    mexists,    \* the size of the collection in the engine, 0 when it has none
    mcalls,     \* history: the calls made to the engine
    merr,       \* the error returned, "" for nil
    \* ---- threshold filtering (internal/ranker FilterByThreshold)
    finput,     \* the rankedChunks argument
    fthreshold, \* the threshold argument
    foutput,    \* the slice returned
    fpc,        \* "idle", "call", "done"
    \* ---- source extraction (internal/generate extractSources)
    sinput,     \* the ranked chunks argument
    soutput,    \* the sources returned
    spc,        \* "idle", "call", "done"
    \* ---- QdrantStore.StoreChunks over an embedding provider
    eprov,       \* the provider behind embeddingService: "openai" or "mock"
    edim,        \* config.Dimensions of the provider
    etexts,      \* Content of the chunks passed to StoreChunks, in order
    eresp,       \* what the OpenAI client does: "ok", "short" or "error"
    eembs,       \* the vectors GenerateEmbeddings returned
    eerr,        \* the error StoreChunks returns, "" for nil
    epoints,     \* the points built for the upsert
    estored,     \* the points the collection accepted
    epc,         \* "embed", "points", "upsert", "done", "panic" or "idle"
    \* ---- Service.generateDocumentID on any file path
    ppath,       \* the filePath argument
    pid,         \* the document id returned
    ppc,         \* "call", "done" or "idle"
    \* ---- Service.findBestBreakPoint on any text
    bsvc,        \* the chunker
    btext,       \* the text argument
    bstart,      \* the start argument; maxEnd is bstart + chunkSize
    bend,        \* the break point returned
    bpc,         \* "call", "done" or "idle"
    \* ---- a history of IngestText and DeleteDocument calls on one store
    hsvc,        \* the chunker of the ingest service
    hstore,      \* the collection: point id -> chunk
    hlast,       \* history: per document id, the chunks of its most recent
                 \* successful ingest that no later delete of that document
                 \* or of that chunk has removed
    hop,         \* the last call that returned: [op, docID, err]
    hcur,        \* the IngestText call in progress: [docID, chunks]
    hpc,         \* that call: "idle", "embed" or "upsert"
    hn,          \* number of calls so far
    \* ---- IngestDirectory over a directory tree with '.', '_' and
    \* sub-directories in its names
    wsvc,        \* the chunker of the ingest service
    wroot,       \* req.DirectoryPath
    wrec,        \* req.Recursive
    wtree,       \* the files of the tree: indices into TreeFiles
    wfiles,      \* what scanDirectory returned: [path, content]
    widx,        \* next file of the loop, 1-based
    wresults,    \* history: the FileIngestResult of every file so far
    wstore,      \* the collection: point id -> chunk
    wcur,        \* processFile in progress: its result and the chunks to store
    wpc,         \* "scan", "loop", "embed", "upsert", "done" or "idle"
    \* ---- Service.ChunkBySentences on any text
    nsvc,        \* the chunker
    ntext,       \* the text argument
    nchunks,     \* the chunks returned
    npc          \* "call", "done" or "idle"

chunkVars == <<svc, input, text, start, chunks, wstarts, cpc>>
rankVars == <<rquery, rchunks, ranked, rpc>>
codecVars == <<kchunk, kpoint, korigin, kresult, kerr, kpc>>
genVars == <<gmode, gquery, gchunks, gpc, gprompt, gresult, providerCalls,
             ctxCancelled, cancelInFlight, ch, chClosed, sent, received, conspc>>

ingestVars == <<isvc, dexists, dfiles, didx, dsuccess, derrors, dresults, dstore,
                dresp, dcur, dpc>>

docVars == <<qsvc, qreq, qpc, qchunks, qret, qext, qstore, qlog, qn>>

ragVars == <<apc, areq, achunks, aranked, atrace, aresp, acalls>>

collVars == <<mpc, marg, msize, mdims, mexists, mcalls, merr>>

filterVars == <<finput, fthreshold, foutput, fpc>>

srcVars == <<sinput, soutput, spc>>

embVars == <<eprov, edim, etexts, eresp, eembs, eerr, epoints, estored, epc>>

pathIdVars == <<ppath, pid, ppc>>

brkVars == <<bsvc, btext, bstart, bend, bpc>>

histVars == <<hsvc, hstore, hlast, hop, hcur, hpc, hn>>

walkVars == <<wsvc, wroot, wrec, wtree, wfiles, widx, wresults, wstore, wcur,
              wpc>>

sentVars == <<nsvc, ntext, nchunks, npc>>

vars == <<chunkVars, rankVars, codecVars, genVars, ingestVars, docVars, ragVars, collVars, filterVars, srcVars, embVars, pathIdVars, brkVars, histVars, walkVars, sentVars>>

\* what an action of one component leaves alone
notChunkVars == <<rankVars, codecVars, genVars, ingestVars,
    docVars,
    ragVars,
    collVars,
    filterVars,
    srcVars,
    embVars,
    pathIdVars,
    brkVars,
    histVars,
    walkVars,
    sentVars>>
notRankVars == <<chunkVars, codecVars, genVars, ingestVars,
    docVars,
    ragVars,
    collVars,
    filterVars,
    srcVars,
    embVars,
    pathIdVars,
    brkVars,
    histVars,
    walkVars,
    sentVars>>
notCodecVars == <<chunkVars, rankVars, genVars, ingestVars,
    docVars,
    ragVars,
    collVars,
    filterVars,
    srcVars,
    embVars,
    pathIdVars,
    brkVars,
    histVars,
    walkVars,
    sentVars>>
notGenVars == <<chunkVars, rankVars, codecVars, ingestVars,
    docVars,
    ragVars,
    collVars,
    filterVars,
    srcVars,
    embVars,
    pathIdVars,
    brkVars,
    histVars,
    walkVars,
    sentVars>>
notIngestVars == <<chunkVars, rankVars, codecVars, genVars,
    docVars,
    ragVars,
    collVars,
    filterVars,
    srcVars,
    embVars,
    pathIdVars,
    brkVars,
    histVars,
    walkVars,
    sentVars>>
notDocVars == <<chunkVars, rankVars, codecVars, genVars, ingestVars,
    ragVars,
    collVars,
    filterVars,
    srcVars,
    embVars,
    pathIdVars,
    brkVars,
    histVars,
    walkVars,
    sentVars>>
notRagVars == <<chunkVars, rankVars, codecVars, genVars, ingestVars, docVars,
    collVars,
    filterVars,
    srcVars,
    embVars,
    pathIdVars,
    brkVars,
    histVars,
    walkVars,
    sentVars>>
notCollVars == <<chunkVars, rankVars, codecVars, genVars, ingestVars, docVars, ragVars,
    filterVars,
    srcVars,
    embVars,
    pathIdVars,
    brkVars,
    histVars,
    walkVars,
    sentVars>>
notFilterVars == <<chunkVars, rankVars, codecVars, genVars, ingestVars, docVars, ragVars, collVars,
    srcVars,
    embVars,
    pathIdVars,
    brkVars,
    histVars,
    walkVars,
    sentVars>>
notSrcVars == <<chunkVars, rankVars, codecVars, genVars, ingestVars, docVars, ragVars, collVars, filterVars,
    embVars,
    pathIdVars,
    brkVars,
    histVars,
    walkVars,
    sentVars>>
notEmbVars == <<chunkVars, rankVars, codecVars, genVars, ingestVars, docVars, ragVars, collVars, filterVars, srcVars,
    pathIdVars,
    brkVars,
    histVars,
    walkVars,
    sentVars>>
notPathIdVars == <<chunkVars, rankVars, codecVars, genVars, ingestVars, docVars, ragVars, collVars, filterVars, srcVars, embVars,
    brkVars,
    histVars,
    walkVars,
    sentVars>>
notBrkVars == <<chunkVars, rankVars, codecVars, genVars, ingestVars, docVars, ragVars, collVars, filterVars, srcVars, embVars, pathIdVars,
    histVars,
    walkVars,
    sentVars>>
notHistVars == <<chunkVars, rankVars, codecVars, genVars, ingestVars, docVars, ragVars, collVars, filterVars, srcVars, embVars, pathIdVars, brkVars,
    walkVars,
    sentVars>>
notWalkVars == <<chunkVars, rankVars, codecVars, genVars, ingestVars, docVars, ragVars, collVars, filterVars, srcVars, embVars, pathIdVars, brkVars, histVars,
    sentVars>>
notSentVars == <<chunkVars, rankVars, codecVars, genVars, ingestVars, docVars, ragVars, collVars, filterVars, srcVars, embVars, pathIdVars, brkVars, histVars, walkVars>>

---------------------------------------------------------------------------
(* Bounds of the model *)

MaxTextLen == 6
MaxWindows == 5
MaxRankChunks == 3
MaxSec == 1
MaxTags == 2
MaxGenChunks == 2
MaxFiles == 3
MaxIngests == 3
MaxRagChunks == 2
MaxVectorSize == 3
MaxFilterChunks == 3
MaxEmbedTexts == 3
MaxPathLen == 4
MaxBreakLen == 6
MaxCalls == 3
MaxSentenceLen == 4
MaxSourceChunks == 3

---------------------------------------------------------------------------
(* Go string helpers *)

Max(S) == CHOOSE x \in S : \A y \in S : y <= x

\* s[i], 0-based
At(s, i) == SubSeq(s, i + 1, i + 1)
\* s[a:b], 0-based, b exclusive
Slice(s, a, b) == SubSeq(s, a + 1, b)

\* unicode.IsSpace restricted to the characters the model draws
IsSpace(c) == c \in {" ", "\n", "\t"}

RECURSIVE TrimLeftSpace(_)
TrimLeftSpace(s) ==
    IF Len(s) > 0 /\ IsSpace(At(s, 0)) THEN TrimLeftSpace(Slice(s, 1, Len(s))) ELSE s

RECURSIVE TrimRightSpace(_)
TrimRightSpace(s) ==
    IF Len(s) > 0 /\ IsSpace(At(s, Len(s) - 1))
    THEN TrimRightSpace(Slice(s, 0, Len(s) - 1)) ELSE s

\* strings.TrimSpace
TrimSpace(s) == TrimRightSpace(TrimLeftSpace(s))

\* strings.Fields: the maximal runs of non-space characters, in order
RECURSIVE FieldsFrom(_, _, _)
FieldsFrom(s, i, cur) ==
    IF i >= Len(s)
    THEN (IF cur = "" THEN <<>> ELSE <<cur>>)
    ELSE IF IsSpace(At(s, i))
         THEN (IF cur = "" THEN <<>> ELSE <<cur>>) \o FieldsFrom(s, i + 1, "")
         ELSE FieldsFrom(s, i + 1, cur \o At(s, i))

Fields(s) == FieldsFrom(s, 0, "")

\* strings.Join
RECURSIVE Join(_, _)
Join(parts, sep) ==
    IF Len(parts) = 0 THEN ""
    ELSE IF Len(parts) = 1 THEN parts[1]
    ELSE parts[1] \o sep \o Join(Tail(parts), sep)

\* strings.ReplaceAll(s, old, new) for a non-empty old: leftmost, non-overlapping
RECURSIVE ReplaceAll(_, _, _)
ReplaceAll(s, old, new) ==
    IF Len(s) < Len(old) THEN s
    ELSE IF Slice(s, 0, Len(old)) = old
         THEN new \o ReplaceAll(Slice(s, Len(old), Len(s)), old, new)
         ELSE At(s, 0) \o ReplaceAll(Slice(s, 1, Len(s)), old, new)

\* every string over alphabet A of length exactly n / at most n
RECURSIVE StringsOfLen(_, _)
StringsOfLen(A, n) ==
    IF n = 0 THEN {""} ELSE {s \o c : s \in StringsOfLen(A, n - 1), c \in A}

StringsUpTo(A, n) == UNION {StringsOfLen(A, k) : k \in 0..n}

---------------------------------------------------------------------------
(* internal/chunk/chunk.go *)

DefaultChunkSize == 1000
DefaultChunkOverlap == 200

\* the characters of the texts given to ChunkText
TextAlphabet == {"a", ".", " ", "\n"}
\* the (chunkSize, chunkOverlap) arguments given to NewService
ReqChunkSizes == {0, 2, 5}
ReqChunkOverlaps == {-1, 0, 1, 4}

NewService(chunkSize, chunkOverlap) ==
    LET cs == IF chunkSize <= 0 THEN DefaultChunkSize ELSE chunkSize
        o1 == IF chunkOverlap < 0 THEN DefaultChunkOverlap ELSE chunkOverlap
        o2 == IF o1 >= cs THEN cs \div 4 ELSE o1
    IN  [chunkSize |-> cs, chunkOverlap |-> o2]

cleanText(t) ==
    TrimSpace(ReplaceAll(Join(Fields(t), " "), "\n\n\n", "\n\n"))

\* the positions findBestBreakPoint's loops visit: maxEnd-1 down to
\* start+chunkSize/2+1
ScanRange(s, startPos, maxEnd) ==
    (startPos + s.chunkSize \div 2 + 1)..(maxEnd - 1)

\* a break point one character past the end of the window
findBestBreakPoint_PastEnd(s, t, startPos, maxEnd) == maxEnd + 1

\* a break point that takes the last whitespace of the range first
findBestBreakPoint_WordFirst(s, t, startPos, maxEnd) ==
    LET range == ScanRange(s, startPos, maxEnd)
        word == {i \in range : IsSpace(At(t, i))}
    IN  IF word # {} THEN Max(word) + 1 ELSE maxEnd

findBestBreakPoint(s, t, startPos, maxEnd) ==
    LET range == ScanRange(s, startPos, maxEnd)
        sentence == {i \in range : /\ At(t, i) \in {".", "!", "?"}
                                   /\ i + 1 < Len(t)
                                   /\ IsSpace(At(t, i + 1))}
        paragraph == {i \in range : At(t, i) = "\n"}
        word == {i \in range : IsSpace(At(t, i))}
    IN  IF sentence # {} THEN Max(sentence) + 1
        ELSE IF paragraph # {} THEN Max(paragraph) + 1
        ELSE IF word # {} THEN Max(word) + 1
        ELSE maxEnd

\* the end of the window that starts at startPos (chunk.go lines 50-60)
WindowEnd(s, t, startPos) ==
    LET e0 == startPos + s.chunkSize
        e1 == IF e0 > Len(t) THEN Len(t) ELSE e0
    IN  IF e1 < Len(t) THEN findBestBreakPoint(s, t, startPos, e1) ELSE e1

\* a next start without overlap
NextStart_NoOverlap(s, end) == end

\* the start of the next window (chunk.go lines 66-71)
NextStart(s, end) ==
    LET n == end - s.chunkOverlap
    IN  IF n <= 0 THEN end ELSE n

ChunkInit ==
    /\ \E cs \in ReqChunkSizes, co \in ReqChunkOverlaps : svc = NewService(cs, co)
    /\ input \in StringsUpTo(TextAlphabet, MaxTextLen)
    /\ text = ""
    /\ start = 0
    /\ chunks = <<>>
    /\ wstarts = <<>>
    /\ cpc = "call"

\* ChunkText up to the loop: lines 33-47
ChunkTextEnter ==
    /\ cpc = "call"
    /\ LET t == cleanText(input)
       IN  IF input = ""
           THEN /\ cpc' = "done" /\ chunks' = <<>> /\ text' = text
           ELSE IF Len(t) <= svc.chunkSize
                THEN /\ cpc' = "done" /\ chunks' = <<t>> /\ text' = t
                ELSE /\ cpc' = "loop" /\ chunks' = <<>> /\ text' = t
    /\ start' = 0
    /\ UNCHANGED <<svc, input, wstarts, notChunkVars>>

\* one iteration of the loop: lines 49-72
ChunkTextStep ==
    /\ cpc = "loop"
    /\ start < Len(text)
    /\ Len(chunks) < MaxWindows
    /\ LET end == WindowEnd(svc, text, start)
       IN  /\ chunks' = Append(chunks, TrimSpace(Slice(text, start, end)))
           /\ wstarts' = Append(wstarts, start)
           /\ start' = NextStart(svc, end)
    /\ UNCHANGED <<svc, input, text, cpc, notChunkVars>>

\* the loop condition fails: line 74
ChunkTextReturn ==
    /\ cpc = "loop"
    /\ ~(start < Len(text))
    /\ cpc' = "done"
    /\ UNCHANGED <<svc, input, text, start, chunks, wstarts, notChunkVars>>

ChunkNext == ChunkTextEnter \/ ChunkTextStep \/ ChunkTextReturn

\* the chunker's variables when no ChunkText call is modelled
ChunkIdle ==
    /\ svc = NewService(0, -1)
    /\ input = ""
    /\ text = ""
    /\ start = 0
    /\ chunks = <<>>
    /\ wstarts = <<>>
    /\ cpc = "idle"

---------------------------------------------------------------------------
(* internal/ranker/ranker.go *)

\* the queries and chunk contents given to RankChunks
RankQueries == {"", "a", "A b", "b  c"}
RankContents == {"a B", "b", ""}
RankDocuments == {"d1", "d2"}

\* strings.ToLower on the letters the model draws
LowerChar(c) ==
    CASE c = "A" -> "a"
      [] c = "B" -> "b"
      [] c = "C" -> "c"
      [] OTHER -> c

RECURSIVE ToLower(_)
ToLower(s) ==
    IF s = "" THEN "" ELSE LowerChar(At(s, 0)) \o ToLower(Slice(s, 1, Len(s)))

\* strings.Contains
Contains(s, sub) ==
    \E i \in 0..(Len(s) - Len(sub)) : Slice(s, i, i + Len(sub)) = sub

\* A float64 score is kept as the exact fraction num/den, den >= 1.
ScoreLess(x, y) == x.num * y.den < y.num * x.den
ScoreEq(x, y) == x.num * y.den = y.num * x.den

\* a score normalized without the len(queryWords) > 0 guard
calculateRelevanceScore_NoGuard(query, content) ==
    LET queryWords == Fields(ToLower(query))
        contentLower == ToLower(content)
        hits == Cardinality({k \in 1..Len(queryWords) :
                                Contains(contentLower, queryWords[k])})
    IN  [num |-> hits, den |-> Len(queryWords)]

calculateRelevanceScore(query, content) ==
    LET queryWords == Fields(ToLower(query))
        contentLower == ToLower(content)
        hits == Cardinality({k \in 1..Len(queryWords) :
                                Contains(contentLower, queryWords[k])})
    IN  IF Len(queryWords) > 0
        THEN [num |-> hits, den |-> Len(queryWords)]
        ELSE [num |-> 0, den |-> 1]

\* the loop of RankChunks: every chunk with its score, in input order
ScoreChunks(query, cs) ==
    [i \in 1..Len(cs) |->
        [chunk |-> cs[i], score |-> calculateRelevanceScore(query, cs[i].Content)]]

IndexPermutations(n) ==
    {p \in [1..n -> 1..n] : \A i, j \in 1..n : i # j => p[i] # p[j]}

\* a sort that leaves the elements in their input order
sortSlice_InputOrder(rs) == {rs}

\* sort.Slice with less(i, j) = Score[i] > Score[j].  sort.Slice does not
\* promise stability: every arrangement of the elements in which no element
\* is followed by one that less() puts before it is a possible result.
sortSlice(rs) ==
    {[i \in 1..Len(rs) |-> rs[p[i]]] : p \in
        {q \in IndexPermutations(Len(rs)) :
            \A i, j \in 1..Len(rs) :
                i < j => ~ScoreLess(rs[q[i]].score, rs[q[j]].score)}}

\* the chunk lists given to RankChunks: ID is the position in the list
RankInputs ==
    UNION {[1..n -> RankDocuments \X RankContents] : n \in 0..MaxRankChunks}

RankInit ==
    /\ rquery \in RankQueries
    /\ \E f \in RankInputs :
          rchunks = [i \in DOMAIN f |->
                        [ID |-> i, DocumentID |-> f[i][1], Content |-> f[i][2],
                         ChunkIndex |-> i - 1]]
    /\ ranked = <<>>
    /\ rpc = "call"

RankChunks ==
    /\ rpc = "call"
    /\ ranked' \in sortSlice(ScoreChunks(rquery, rchunks))
    /\ rpc' = "done"
    /\ UNCHANGED <<rquery, rchunks, notRankVars>>

RankNext == RankChunks

\* the ranker's variables when no RankChunks call is modelled
RankIdle ==
    /\ rquery = ""
    /\ rchunks = <<>>
    /\ ranked = <<>>
    /\ rpc = "idle"

---------------------------------------------------------------------------
(* internal/store: the payload codec of QdrantStore *)

\* A time.Time is kept as the instant [sec, nsec]: sec whole seconds after
\* 0001-01-01T00:00:00Z (the zero Time) and nsec nanoseconds within the second.
ZeroTime == [sec |-> 0, nsec |-> 0]

Digit(n) == SubSeq("0123456789", n + 1, n + 1)

\* t.Format(time.RFC3339) for an instant within the first minute: the layout
\* "2006-01-02T15:04:05Z07:00" has no fractional seconds
FormatRFC3339(t) ==
    "0001-01-01T00:00:" \o Digit(t.sec \div 10) \o Digit(t.sec % 10) \o "Z"

\* time.Parse(time.RFC3339, str) with its error dropped: the zero Time when
\* str is no RFC3339 timestamp
ParseRFC3339(str) ==
    LET hits == {n \in 0..59 : FormatRFC3339([sec |-> n, nsec |-> 0]) = str}
    IN  IF hits = {} THEN ZeroTime
        ELSE [sec |-> CHOOSE n \in hits : TRUE, nsec |-> 0]

\* qdrant.Value: one of a string, an integer or a list of values
NewValueString(x) == [kind |-> "string", str |-> x, int |-> 0, list |-> <<>>]
NewValueInt(n) == [kind |-> "integer", str |-> "", int |-> n, list |-> <<>>]
NewValueList(l) == [kind |-> "list", str |-> "", int |-> 0, list |-> l]

GetStringValue(v) == IF v.kind = "string" THEN v.str ELSE ""
GetIntegerValue(v) == IF v.kind = "integer" THEN v.int ELSE 0

\* a map[string]V as a function; m[k] = v added or overwritten
NoMap == [k \in {} |-> ""]
MapPut(m, k, v) == [x \in DOMAIN m \cup {k} |-> IF x = k THEN v ELSE m[x]]
MapPutIf(cond, m, k, v) == IF cond THEN MapPut(m, k, v) ELSE m

\* the payload keys "custom_"+key of a Custom map (lines 135-138)
CustomPayload(custom) ==
    [pk \in {"custom_" \o k : k \in DOMAIN custom} |->
        NewValueString(custom[CHOOSE k \in DOMAIN custom : "custom_" \o k = pk])]

MapMerge(m, n) ==
    [x \in DOMAIN m \cup DOMAIN n |-> IF x \in DOMAIN n THEN n[x] ELSE m[x]]

\* the payload StoreChunks builds for one chunk (lines 99-138)
chunkPayload(c) ==
    LET p0 == [k \in {"document_id", "content", "chunk_index", "created_at", "updated_at"} |->
                 CASE k = "document_id" -> NewValueString(c.DocumentID)
                   [] k = "content" -> NewValueString(c.Content)
                   [] k = "chunk_index" -> NewValueInt(c.ChunkIndex)
                   [] k = "created_at" -> NewValueString(FormatRFC3339(c.CreatedAt))
                   [] k = "updated_at" -> NewValueString(FormatRFC3339(c.UpdatedAt))]
        md == c.Metadata
        p1 == MapPutIf(md.Title # "", p0, "title", NewValueString(md.Title))
        p2 == MapPutIf(md.Author # "", p1, "author", NewValueString(md.Author))
        p3 == MapPutIf(md.Source # "", p2, "source", NewValueString(md.Source))
        p4 == MapPutIf(md.Language # "", p3, "language", NewValueString(md.Language))
        p5 == MapPutIf(md.ContentType # "", p4, "content_type",
                       NewValueString(md.ContentType))
        p6 == MapPutIf(Len(md.Tags) > 0, p5, "tags",
                       NewValueList([j \in 1..Len(md.Tags) |-> NewValueString(md.Tags[j])]))
    IN  MapMerge(p6, CustomPayload(md.Custom))

\* a qdrant.PointId: nil, a number, or a UUID
NilId == [kind |-> "nil", num |-> 0]
NewIDNum(n) == [kind |-> "num", num |-> n]
UuidId == [kind |-> "uuid", num |-> 0]
\* PointId.GetNum: the number of a numeric id, else 0
GetNum(id) == IF id.kind = "num" THEN id.num ELSE 0

\* the point StoreChunks builds for one chunk (lines 140-144), without its vector
chunkPoint(c) ==
    [Id |-> NewIDNum(c.ID), hasPayload |-> TRUE, Payload |-> chunkPayload(c)]

getStringFromPayload(payload, key) ==
    IF key \in DOMAIN payload THEN GetStringValue(payload[key]) ELSE ""

getIntFromPayload(payload, key) ==
    IF key \in DOMAIN payload THEN GetIntegerValue(payload[key]) ELSE 0

\* the elements of a sequence that satisfy keep, in order
RECURSIVE NonEmptyStrings(_)
NonEmptyStrings(l) ==
    IF Len(l) = 0 THEN <<>>
    ELSE (IF GetStringValue(l[1]) # "" THEN <<GetStringValue(l[1])>> ELSE <<>>)
         \o NonEmptyStrings(Tail(l))

\* lines 246-255
payloadTags(payload) ==
    IF "tags" \in DOMAIN payload /\ payload["tags"].kind = "list"
    THEN NonEmptyStrings(payload["tags"].list)
    ELSE <<>>

\* lines 257-263
payloadCustom(payload) ==
    LET keys == {k \in DOMAIN payload : Len(k) > 7 /\ SubSeq(k, 1, 7) = "custom_"}
    IN  [ck \in {SubSeq(k, 8, Len(k)) : k \in keys} |->
            GetStringValue(payload["custom_" \o ck])]

NoMetadata ==
    [Title |-> "", Author |-> "", Source |-> "", Language |-> "", ContentType |-> "",
     Tags |-> <<>>, Custom |-> NoMap]

NoChunk ==
    [ID |-> 0, DocumentID |-> "", Content |-> "", ChunkIndex |-> 0,
     Metadata |-> NoMetadata, CreatedAt |-> ZeroTime, UpdatedAt |-> ZeroTime]

\* lines 227-273: the chunk built from a point whose id and payload passed
decodedChunk(point) ==
    LET payload == point.Payload
    IN  [ID |-> GetNum(point.Id),
         DocumentID |-> getStringFromPayload(payload, "document_id"),
         Content |-> getStringFromPayload(payload, "content"),
         ChunkIndex |-> getIntFromPayload(payload, "chunk_index"),
         Metadata |->
            [Title |-> getStringFromPayload(payload, "title"),
             Author |-> getStringFromPayload(payload, "author"),
             Source |-> getStringFromPayload(payload, "source"),
             Language |-> getStringFromPayload(payload, "language"),
             ContentType |-> getStringFromPayload(payload, "content_type"),
             Tags |-> payloadTags(payload),
             Custom |-> payloadCustom(payload)],
         CreatedAt |-> ParseRFC3339(getStringFromPayload(payload, "created_at")),
         UpdatedAt |-> ParseRFC3339(getStringFromPayload(payload, "updated_at"))]

\* pointToDocumentChunk without its check of the payload: reading the nil
\* map yields zero values
pointToDocumentChunk_NoPayloadCheck(point) ==
    IF point.Id.kind # "nil" /\ GetNum(point.Id) = 0
    THEN [err |-> "point ID must be numeric", chunk |-> NoChunk]
    ELSE IF GetNum(point.Id) = 0
    THEN [err |-> "point ID is missing", chunk |-> NoChunk]
    ELSE [err |-> "", chunk |-> decodedChunk(point)]

pointToDocumentChunk(point) ==
    IF point.Id.kind # "nil" /\ GetNum(point.Id) = 0
    THEN [err |-> "point ID must be numeric", chunk |-> NoChunk]
    ELSE IF GetNum(point.Id) = 0
    THEN [err |-> "point ID is missing", chunk |-> NoChunk]
    ELSE IF ~point.hasPayload
    THEN [err |-> "point payload is missing", chunk |-> NoChunk]
    ELSE [err |-> "", chunk |-> decodedChunk(point)]

\* ---- the chunks given to StoreChunks
CodecIds == {0, 7}
CodecIndexes == {0, 2}
CodecTimes == [sec : 0..MaxSec, nsec : {0, 1}]
OptionalValues == {"", "v"}
TagValues == {"a", ""}
CustomKeys == {"", "k", "custom_"}

CodecTags == UNION {[1..n -> TagValues] : n \in 0..MaxTags}
CodecCustoms == UNION {[ks -> {"x"}] : ks \in SUBSET CustomKeys}

CodecChunks ==
    {[ID |-> id, DocumentID |-> "d1", Content |-> "some text", ChunkIndex |-> ix,
      Metadata |-> [Title |-> o[1], Author |-> o[2], Source |-> o[3],
                    Language |-> o[4], ContentType |-> o[5],
                    Tags |-> tg, Custom |-> cu],
      CreatedAt |-> ct, UpdatedAt |-> ut] :
        id \in CodecIds, ix \in CodecIndexes, o \in [1..5 -> OptionalValues],
        tg \in CodecTags, cu \in CodecCustoms,
        ct \in CodecTimes, ut \in {ZeroTime, [sec |-> MaxSec, nsec |-> 1]}}

\* ---- the points a collection may return to the decoder: any id, and a
\* payload that lacks fields or holds them with another type
PointIds == {NilId, NewIDNum(0), NewIDNum(7), UuidId}
PointKeys == {"document_id", "chunk_index", "created_at", "title", "tags", "custom_k"}
PointValues ==
    {NewValueString("x"), NewValueInt(3),
     NewValueList(<<NewValueString("a"), NewValueInt(1)>>)}
PointPayloads == UNION {[ks -> PointValues] : ks \in SUBSET PointKeys}

NoPoint == [Id |-> NilId, hasPayload |-> FALSE, Payload |-> NoMap]
NoResult == [err |-> "", chunk |-> NoChunk]

CodecInit ==
    /\ kresult = NoResult
    /\ kerr = ""
    /\ \/ /\ kchunk \in CodecChunks
          /\ kpoint = NoPoint
          /\ korigin = "store"
          /\ kpc = "store"
       \/ /\ kchunk = NoChunk
          /\ \/ \E id \in PointIds, pl \in PointPayloads :
                  kpoint = [Id |-> id, hasPayload |-> TRUE, Payload |-> pl]
             \/ \E id \in PointIds :
                  kpoint = [Id |-> id, hasPayload |-> FALSE, Payload |-> NoMap]
          /\ korigin = "qdrant"
          /\ kpc = "stored"

\* StoreChunks with one chunk, up to the return of GenerateEmbeddings
\* (lines 73-88): the embedding provider may fail
StoreChunksAwaitEmbeddings ==
    /\ kpc = "store"
    /\ \E ok \in BOOLEAN :
          IF ok
          THEN /\ kpc' = "upsert"
               /\ UNCHANGED kerr
          ELSE /\ kerr' = "failed to generate embeddings"
               /\ kpc' = "failed"
    /\ UNCHANGED <<kchunk, kpoint, korigin, kresult, notCodecVars>>

\* the point is built and client.Upsert returns (lines 90-157): the upsert
\* may fail
StoreChunksAwaitUpsert ==
    /\ kpc = "upsert"
    /\ \E ok \in BOOLEAN :
          IF ok
          THEN /\ kerr' = ""
               /\ kpc' = "stored"
               /\ kpoint' = chunkPoint(kchunk)
          ELSE /\ kerr' = "failed to upsert points to Qdrant"
               /\ kpc' = "failed"
               /\ kpoint' = kpoint
    /\ UNCHANGED <<kchunk, korigin, kresult, notCodecVars>>

\* a read (GetChunkByID, SearchSimilar, GetChunksByDocumentID) decoding the point
DecodePoint ==
    /\ kpc = "stored"
    /\ kresult' = pointToDocumentChunk(kpoint)
    /\ kpc' = "decoded"
    /\ UNCHANGED <<kchunk, kpoint, korigin, kerr, notCodecVars>>

CodecNext ==
    \/ StoreChunksAwaitEmbeddings
    \/ StoreChunksAwaitUpsert
    \/ DecodePoint

\* the codec's variables when no store operation is modelled
CodecIdle ==
    /\ kchunk = NoChunk
    /\ kpoint = NoPoint
    /\ korigin = "store"
    /\ kresult = NoResult
    /\ kerr = ""
    /\ kpc = "idle"

---------------------------------------------------------------------------
(* internal/generate/generate.go *)

FallbackResponse == "I don't have enough information to answer your question."

\* the ranked chunks given to the generator
GenDocuments == {"d1", "d2"}
GenContents == {"x", "y z"}
GenInputs ==
    UNION {[1..n -> GenDocuments \X GenContents] : n \in 0..MaxGenChunks}

\* line 45: GenerateResponse answers without the provider
ShortCircuit_Never(cs) == FALSE

ShortCircuit(cs) == Len(cs) = 0

\* fmt.Sprintf("Context %d: %s", i+1, chunk.Content) joined by blank lines
buildContext(cs) ==
    Join([i \in 1..Len(cs) |-> "Context " \o Digit(i) \o ": " \o cs[i].Content],
         "\n\n")

buildPrompt(query, context) ==
    "Based on the following context, please answer the question. If the context doesn't contain enough information to answer the question, please say so."
    \o "\n\nContext:\n" \o context \o "\n\nQuestion: " \o query \o "\n\nAnswer:"

RECURSIVE extractSourcesFrom(_, _, _)
extractSourcesFrom(cs, i, sources) ==
    IF i > Len(cs) THEN sources
    ELSE IF \E k \in 1..Len(sources) : sources[k] = cs[i].DocumentID
         THEN extractSourcesFrom(cs, i + 1, sources)
         ELSE extractSourcesFrom(cs, i + 1, Append(sources, cs[i].DocumentID))

\* sources without deduplication
extractSources_NoDedup(cs) == [i \in 1..Len(cs) |-> cs[i].DocumentID]

extractSources(cs) == extractSourcesFrom(cs, 1, <<>>)

\* what client.CreateChatCompletion can do: a completion, an error, or a
\* response without choices; with the context cancelled the call is aborted
\* with the context's error
ProviderOutcomes(cancelled) ==
    IF cancelled THEN {"canceled"} ELSE {"completion", "error", "no choices"}

\* generateWithLLM's result for a provider outcome: [text, err]
generateWithLLM(outcome) ==
    CASE outcome = "completion" -> [text |-> "an answer", err |-> ""]
      [] outcome = "no choices" -> [text |-> "", err |-> "no response choices returned"]
      [] outcome = "canceled" ->
            [text |-> "", err |-> "failed to create chat completion: context canceled"]
      [] OTHER -> [text |-> "", err |-> "failed to create chat completion: api error"]

\* lines 59-70: GenerateResponse's result once generateWithLLM returned
GenerateResult(cs, llm) ==
    IF llm.err # ""
    THEN [Response |-> "", Sources |-> <<>>,
          err |-> "failed to generate response: " \o llm.err]
    ELSE [Response |-> llm.text, Sources |-> extractSources(cs), err |-> ""]

NoGenResult == [Response |-> "", Sources |-> <<>>, err |-> ""]

\* make(chan string, 1)
ChanCap == 1

\* where control goes when GenerateResponse returns
AfterGenerate == IF gmode = "stream" THEN "send" ELSE "returned"

GenInit ==
    /\ gmode \in {"direct", "stream"}
    /\ gquery \in {"", "what?"}
    /\ \E f \in GenInputs :
          gchunks = [i \in DOMAIN f |->
                        [DocumentID |-> f[i][1], Content |-> f[i][2]]]
    /\ gpc = IF gmode = "stream" THEN "call" ELSE "gen"
    /\ gprompt = ""
    /\ gresult = NoGenResult
    /\ providerCalls = 0
    /\ ctxCancelled = FALSE
    /\ cancelInFlight = FALSE
    /\ ch = <<>>
    /\ chClosed = FALSE
    /\ sent = 0
    /\ received = <<>>
    /\ conspc = "idle"

\* StreamResponse: makes the channel, starts the goroutine, returns the channel
StreamResponse ==
    /\ gmode = "stream"
    /\ gpc = "call"
    /\ gpc' = "gen"
    /\ ch' = <<>>
    /\ conspc' = "recv"
    /\ UNCHANGED <<gmode, gquery, gchunks, gprompt, gresult, providerCalls,
                   ctxCancelled, cancelInFlight, chClosed, sent, received, notGenVars>>

\* GenerateResponse up to the provider call: lines 44-59 and 97-114
GenerateEnter ==
    /\ gpc = "gen"
    /\ IF ShortCircuit(gchunks)
       THEN /\ gresult' = [Response |-> FallbackResponse, Sources |-> <<>>, err |-> ""]
            /\ gpc' = AfterGenerate
            /\ UNCHANGED <<gprompt, providerCalls>>
       ELSE /\ gprompt' = buildPrompt(gquery, buildContext(gchunks))
            /\ providerCalls' = providerCalls + 1
            /\ gpc' = "provider"
            /\ UNCHANGED gresult
    /\ UNCHANGED <<gmode, gquery, gchunks, ctxCancelled, cancelInFlight, ch, chClosed,
                   sent, received, conspc, notGenVars>>

\* the provider call returns and GenerateResponse returns: lines 114-123, 59-70
ProviderReturn ==
    /\ gpc = "provider"
    /\ \E outcome \in ProviderOutcomes(ctxCancelled) :
          gresult' = GenerateResult(gchunks, generateWithLLM(outcome))
    /\ gpc' = AfterGenerate
    /\ UNCHANGED <<gmode, gquery, gchunks, gprompt, providerCalls, ctxCancelled,
                   cancelInFlight, ch, chClosed, sent, received, conspc, notGenVars>>

\* the goroutine's send, lines 149-153; a send on a full channel blocks
ProducerSend ==
    /\ gpc = "send"
    /\ Len(ch) < ChanCap
    /\ ch' = Append(ch, IF gresult.err # ""
                        THEN "Error generating response: " \o gresult.err
                        ELSE gresult.Response)
    /\ sent' = sent + 1
    /\ gpc' = "close"
    /\ UNCHANGED <<gmode, gquery, gchunks, gprompt, gresult, providerCalls,
                   ctxCancelled, cancelInFlight, chClosed, received, conspc, notGenVars>>

\* a producer that closes the channel only after a successful generation
ProducerClose_OnlyOnSuccess ==
    /\ gpc = "close"
    /\ chClosed' = (gresult.err = "")
    /\ gpc' = "exit"
    /\ UNCHANGED <<gmode, gquery, gchunks, gprompt, gresult, providerCalls,
                   ctxCancelled, cancelInFlight, ch, sent, received, conspc, notGenVars>>

\* the deferred close(responseChan), line 147
ProducerClose ==
    /\ gpc = "close"
    /\ chClosed' = TRUE
    /\ gpc' = "exit"
    /\ UNCHANGED <<gmode, gquery, gchunks, gprompt, gresult, providerCalls,
                   ctxCancelled, cancelInFlight, ch, sent, received, conspc, notGenVars>>

\* the caller cancels the context it passed
CancelContext ==
    /\ gpc \in {"call", "gen", "provider", "send", "close"}
    /\ ~ctxCancelled
    /\ ctxCancelled' = TRUE
    /\ cancelInFlight' = (gpc = "provider")
    /\ UNCHANGED <<gmode, gquery, gchunks, gpc, gprompt, gresult, providerCalls,
                   ch, chClosed, sent, received, conspc, notGenVars>>

\* for response := range streamChan: one receive
ConsumerReceive ==
    /\ conspc = "recv"
    /\ Len(ch) > 0
    /\ received' = Append(received, Head(ch))
    /\ ch' = Tail(ch)
    /\ UNCHANGED <<gmode, gquery, gchunks, gpc, gprompt, gresult, providerCalls,
                   ctxCancelled, cancelInFlight, chClosed, sent, conspc, notGenVars>>

\* the range loop ends: the channel is closed and drained
ConsumerDone ==
    /\ conspc = "recv"
    /\ Len(ch) = 0
    /\ chClosed
    /\ conspc' = "done"
    /\ UNCHANGED <<gmode, gquery, gchunks, gpc, gprompt, gresult, providerCalls,
                   ctxCancelled, cancelInFlight, ch, chClosed, sent, received, notGenVars>>

GenNext ==
    \/ StreamResponse
    \/ GenerateEnter
    \/ ProviderReturn
    \/ ProducerSend
    \/ ProducerClose
    \/ CancelContext
    \/ ConsumerReceive
    \/ ConsumerDone

\* The Go scheduler runs every runnable goroutine, and the provider's HTTP
\* call ends with a response or an error; the caller need not ever cancel.
GenFairness ==
    /\ WF_vars(StreamResponse)
    /\ WF_vars(GenerateEnter)
    /\ WF_vars(ProviderReturn)
    /\ WF_vars(ProducerSend)
    /\ WF_vars(ProducerClose)
    /\ WF_vars(ConsumerReceive)
    /\ WF_vars(ConsumerDone)

\* the generator's variables when no generation is modelled
GenIdle ==
    /\ gmode = "direct"
    /\ gquery = ""
    /\ gchunks = <<>>
    /\ gpc = "idle"
    /\ gprompt = ""
    /\ gresult = NoGenResult
    /\ providerCalls = 0
    /\ ctxCancelled = FALSE
    /\ cancelInFlight = FALSE
    /\ ch = <<>>
    /\ chClosed = FALSE
    /\ sent = 0
    /\ received = <<>>
    /\ conspc = "idle"

---------------------------------------------------------------------------
(* internal/chunk/chunk.go: sentence chunking, used by ingestion *)

\* strings.Split(s, sep) for a one-character sep
RECURSIVE SplitFrom(_, _, _, _)
SplitFrom(s, sep, i, cur) ==
    IF i >= Len(s) THEN <<cur>>
    ELSE IF At(s, i) = sep
         THEN <<cur>> \o SplitFrom(s, sep, i + 1, "")
         ELSE SplitFrom(s, sep, i + 1, cur \o At(s, i))

Split(s, sep) == SplitFrom(s, sep, 0, "")

\* the non-empty trimmed elements, in order
RECURSIVE TrimmedNonEmpty(_)
TrimmedNonEmpty(parts) ==
    IF Len(parts) = 0 THEN <<>>
    ELSE (IF TrimSpace(parts[1]) # "" THEN <<TrimSpace(parts[1])>> ELSE <<>>)
         \o TrimmedNonEmpty(Tail(parts))

splitIntoSentences(t) ==
    LET t1 == ReplaceAll(t, ".", ".|")
        t2 == ReplaceAll(t1, "!", "!|")
        t3 == ReplaceAll(t2, "?", "?|")
    IN  TrimmedNonEmpty(Split(t3, "|"))

\* the loop of ChunkBySentences from sentence i on: out are the chunks
\* appended so far, cur the content of currentChunk
RECURSIVE SentenceLoop(_, _, _, _, _)
SentenceLoop(s, sentences, i, out, cur) ==
    IF i > Len(sentences)
    THEN (IF Len(cur) > 0 THEN Append(out, TrimSpace(cur)) ELSE out)
    ELSE LET sentence == TrimSpace(sentences[i])
             flush == Len(cur) + Len(sentence) + 1 > s.chunkSize /\ Len(cur) > 0
             out1 == IF flush THEN Append(out, TrimSpace(cur)) ELSE out
             cur1 == IF flush THEN "" ELSE cur
             cur2 == IF Len(cur1) > 0 THEN cur1 \o " " ELSE cur1
         IN  IF sentence = ""
             THEN SentenceLoop(s, sentences, i + 1, out, cur)
             ELSE SentenceLoop(s, sentences, i + 1, out1, cur2 \o sentence)

ChunkBySentences(s, t) == SentenceLoop(s, splitIntoSentences(t), 1, <<>>, "")

---------------------------------------------------------------------------
(* internal/ingest and the store it writes to *)

\* the file names of the directory and what a file can hold
FilePath(i) == "docs/f" \o Digit(i) \o ".txt"
FileContents == {"", "One. Two!", "No end"}
IngestChunkSizes == {0, 5}

\* types.GenerateChunkID: the FNV-1a hash of "<documentID>_<chunkIndex>".
\* The id is kept as the hashed string itself: two ids are equal exactly
\* when the hashed strings are (the hash is taken to be collision-free).
GenerateChunkID(documentID, chunkIndex) == documentID \o "_" \o Digit(chunkIndex)

\* strings.TrimLeft(s, "./"): every leading '.' and '/' removed
RECURSIVE TrimLeftDotSlash(_)
TrimLeftDotSlash(str) ==
    IF Len(str) > 0 /\ At(str, 0) \in {".", "/"}
    THEN TrimLeftDotSlash(Slice(str, 1, Len(str))) ELSE str

generateDocumentID(filePath) ==
    TrimLeftDotSlash(ReplaceAll(filePath, "/", "_"))

\* document chunks whose id is computed from the chunk's content
DocChunks_IdFromContent(docID, cs) ==
    [i \in 1..Len(cs) |->
        [ID |-> GenerateChunkID(cs[i], i - 1), DocumentID |-> docID,
         Content |-> cs[i], ChunkIndex |-> i - 1]]

\* lines 47-56: the document chunks of IngestDocument
DocChunks(docID, cs) ==
    [i \in 1..Len(cs) |->
        [ID |-> GenerateChunkID(docID, i - 1), DocumentID |-> docID,
         Content |-> cs[i], ChunkIndex |-> i - 1]]

\* an upsert that replaces the whole collection by the points of docChunks
Upsert_ReplaceCollection(st, docChunks) ==
    [id \in {docChunks[i].ID : i \in 1..Len(docChunks)} |->
        docChunks[CHOOSE i \in 1..Len(docChunks) : docChunks[i].ID = id]]

\* the collection after an upsert of the points of docChunks
Upsert(st, docChunks) ==
    [id \in DOMAIN st \cup {docChunks[i].ID : i \in 1..Len(docChunks)} |->
        IF \E i \in 1..Len(docChunks) : docChunks[i].ID = id
        THEN docChunks[CHOOSE i \in 1..Len(docChunks) :
                          /\ docChunks[i].ID = id
                          /\ \A j \in (i + 1)..Len(docChunks) : docChunks[j].ID # id]
        ELSE st[id]]

\* what an IngestDocument call (through IngestText) that runs alone returns
\* and leaves in the collection: [count, err, store]; env is what the
\* embedding provider and Qdrant do if StoreChunks reaches them
IngestDocument(s, st, docID, content, env) ==
    LET cs == ChunkBySentences(s, content)
        docChunks == DocChunks(docID, cs)
    IN  IF Len(docChunks) = 0
        THEN [count |-> 0, err |-> "", store |-> st]
        ELSE IF env = "embedding fails"
        THEN [count |-> 0, err |-> "failed to generate embeddings: provider error",
              store |-> st]
        ELSE IF env = "upsert fails"
        THEN [count |-> 0, err |-> "failed to upsert points to Qdrant: rpc error",
              store |-> st]
        ELSE [count |-> Len(cs), err |-> "", store |-> Upsert(st, docChunks)]

\* a FileIngestResult
FileIngestResult(file, status, err) ==
    [FilePath |-> file.path, DocumentID |-> generateDocumentID(file.path),
     Status |-> status, Error |-> err]

\* processFile up to the first wait: the file is read and checked, the text
\* is chunked and the document chunks are built (processFile lines 160-187,
\* IngestDocument lines 32-56, StoreChunks lines 73-82).  pc is "result"
\* when processFile returns without reaching the embedding provider.
processFileRead(s, file) ==
    LET docID == generateDocumentID(file.path)
        docChunks == DocChunks(docID, ChunkBySentences(s, file.content))
    IN  IF ~file.readable
        THEN [pc |-> "result", chunks |-> <<>>,
              result |-> FileIngestResult(file, "failed",
                            "failed to read file: permission denied")]
        ELSE IF Len(file.content) = 0
        THEN [pc |-> "result", chunks |-> <<>>,
              result |-> FileIngestResult(file, "skipped", "file is empty")]
        ELSE IF Len(docChunks) = 0
        THEN [pc |-> "result", chunks |-> <<>>,
              result |-> FileIngestResult(file, "success", "")]
        ELSE [pc |-> "embed", chunks |-> docChunks,
              result |-> FileIngestResult(file, "", "")]

\* processFile returns a failure of IngestText (lines 187-194)
processFileFailed(cur, err) ==
    [chunks |-> <<>>,
     result |-> [cur.result EXCEPT !.Status = "failed",
                                   !.Error = "failed to ingest: " \o err]]

\* processFile returns success (lines 196-200)
processFileSucceeded(cur) ==
    [chunks |-> <<>>, result |-> [cur.result EXCEPT !.Status = "success"]]

\* the files a directory can hold: unreadable, or readable with some content
FileStates ==
    {[readable |-> FALSE, content |-> ""]}
    \cup {[readable |-> TRUE, content |-> c] : c \in FileContents}

NoResponse == [ProcessedFiles |-> 0, SuccessfulIngestions |-> <<>>, Errors |-> <<>>]
NoPending ==
    [chunks |-> <<>>,
     result |-> [FilePath |-> "", DocumentID |-> "", Status |-> "", Error |-> ""]]

IngestInit ==
    /\ \E cs \in IngestChunkSizes : isvc = NewService(cs, 0)
    /\ dexists \in BOOLEAN
    /\ \E n \in 0..MaxFiles : \E f \in [1..n -> FileStates] :
          dfiles = [i \in 1..n |->
                      [path |-> FilePath(i), readable |-> f[i].readable,
                       content |-> f[i].content]]
    /\ (~dexists => dfiles = <<>>)
    /\ didx = 1
    /\ dsuccess = <<>>
    /\ derrors = <<>>
    /\ dresults = <<>>
    /\ dstore = NoMap
    /\ dresp = NoResponse
    /\ dcur = NoPending
    /\ dpc = "call"

\* IngestDirectory up to its loop: lines 78-88
IngestDirectoryEnter ==
    /\ dpc = "call"
    /\ dpc' = IF dexists THEN "loop" ELSE "failed"
    /\ UNCHANGED <<isvc, dexists, dfiles, didx, dsuccess, derrors, dresults, dstore,
                   dresp, dcur, notIngestVars>>

\* the loop calls processFile (line 92), which runs up to the embedding call
\* of StoreChunks or returns before it
IngestDirectoryProcessFile ==
    /\ dpc = "loop"
    /\ didx <= Len(dfiles)
    /\ LET r == processFileRead(isvc, dfiles[didx])
       IN  /\ dcur' = [chunks |-> r.chunks, result |-> r.result]
           /\ dpc' = r.pc
    /\ UNCHANGED <<isvc, dexists, dfiles, didx, dsuccess, derrors, dresults, dstore,
                   dresp, notIngestVars>>

\* GenerateEmbeddings returns: part_001 lines 85-88
IngestDirectoryStoreEmbed ==
    /\ dpc = "embed"
    /\ \E ok \in BOOLEAN :
          IF ok
          THEN /\ dpc' = "upsert"
               /\ UNCHANGED dcur
          ELSE /\ dcur' = processFileFailed(dcur,
                              "failed to generate embeddings: provider error")
               /\ dpc' = "result"
    /\ UNCHANGED <<isvc, dexists, dfiles, didx, dsuccess, derrors, dresults, dstore,
                   dresp, notIngestVars>>

\* client.Upsert returns: part_001 lines 148-156
IngestDirectoryStoreUpsert ==
    /\ dpc = "upsert"
    /\ \E ok \in BOOLEAN :
          IF ok
          THEN /\ dstore' = Upsert(dstore, dcur.chunks)
               /\ dcur' = processFileSucceeded(dcur)
          ELSE /\ dcur' = processFileFailed(dcur,
                              "failed to upsert points to Qdrant: rpc error")
               /\ UNCHANGED dstore
    /\ dpc' = "result"
    /\ UNCHANGED <<isvc, dexists, dfiles, didx, dsuccess, derrors, dresults,
                   dresp, notIngestVars>>

\* a loop that gives up on the first file whose result carries an error
IngestDirectoryStep_AbortOnFailure ==
    /\ dpc = "result"
    /\ LET result == dcur.result
       IN  /\ dpc' = IF result.Error # "" THEN "failed" ELSE "loop"
           /\ dsuccess' = IF result.Error # "" THEN dsuccess
                          ELSE Append(dsuccess,
                                      [DocumentID |-> result.DocumentID,
                                       Status |-> result.Status])
           /\ dresults' = Append(dresults, result)
    /\ didx' = didx + 1
    /\ dcur' = NoPending
    /\ UNCHANGED <<isvc, dexists, dfiles, derrors, dstore, dresp, notIngestVars>>

\* a loop that sorts the results by Status and reports a skipped file in
\* neither list
IngestDirectoryStep_SkippedUnreported ==
    /\ dpc = "result"
    /\ LET result == dcur.result
       IN  /\ derrors' = IF result.Status = "failed"
                         THEN Append(derrors,
                                     result.FilePath \o ": " \o result.Error)
                         ELSE derrors
           /\ dsuccess' = IF result.Status = "success"
                          THEN Append(dsuccess,
                                      [DocumentID |-> result.DocumentID,
                                       Status |-> result.Status])
                          ELSE dsuccess
           /\ dresults' = Append(dresults, result)
    /\ didx' = didx + 1
    /\ dcur' = NoPending
    /\ dpc' = "loop"
    /\ UNCHANGED <<isvc, dexists, dfiles, dstore, dresp, notIngestVars>>

\* the rest of the loop body once processFile has returned: lines 93-101
IngestDirectoryStep ==
    /\ dpc = "result"
    /\ LET result == dcur.result
       IN  /\ IF result.Error # ""
              THEN /\ derrors' = Append(derrors,
                                        result.FilePath \o ": " \o result.Error)
                   /\ UNCHANGED dsuccess
              ELSE /\ dsuccess' = Append(dsuccess,
                                         [DocumentID |-> result.DocumentID,
                                          Status |-> result.Status])
                   /\ UNCHANGED derrors
           /\ dresults' = Append(dresults, result)
    /\ didx' = didx + 1
    /\ dcur' = NoPending
    /\ dpc' = "loop"
    /\ UNCHANGED <<isvc, dexists, dfiles, dstore, dresp, notIngestVars>>

\* the loop is over: lines 104-110
IngestDirectoryReturn ==
    /\ dpc = "loop"
    /\ didx > Len(dfiles)
    /\ dresp' = [ProcessedFiles |-> Len(dfiles), SuccessfulIngestions |-> dsuccess,
                 Errors |-> derrors]
    /\ dpc' = "done"
    /\ UNCHANGED <<isvc, dexists, dfiles, didx, dsuccess, derrors, dresults, dstore,
                   dcur, notIngestVars>>

IngestNext ==
    \/ IngestDirectoryEnter
    \/ IngestDirectoryProcessFile
    \/ IngestDirectoryStoreEmbed
    \/ IngestDirectoryStoreUpsert
    \/ IngestDirectoryStep
    \/ IngestDirectoryReturn

\* the ingestion variables when no request is modelled
IngestIdle ==
    /\ isvc = NewService(0, -1)
    /\ dexists = FALSE
    /\ dfiles = <<>>
    /\ didx = 1
    /\ dsuccess = <<>>
    /\ derrors = <<>>
    /\ dresults = <<>>
    /\ dstore = NoMap
    /\ dresp = NoResponse
    /\ dcur = NoPending
    /\ dpc = "idle"

---------------------------------------------------------------------------
(* internal/ingest IngestDocument / IngestText over internal/store
   StoreChunks: requests running concurrently against one collection *)

Slots == 1..2
DocIds == {"", "a", "b"}
DocContents == {"", "One. Two!", "No."}
\* a chunk size that splits "One. Two!" into two chunks
DocChunkSizes == {5}

NoRequest == [docID |-> "", content |-> ""]
NoReturn == [count |-> 0, err |-> ""]

DocInit ==
    /\ \E cs \in DocChunkSizes : qsvc = NewService(cs, 0)
    /\ qreq = [p \in Slots |-> NoRequest]
    /\ qpc = [p \in Slots |-> "idle"]
    /\ qchunks = [p \in Slots |-> <<>>]
    /\ qret = [p \in Slots |-> NoReturn]
    /\ qext = [p \in Slots |-> 0]
    /\ qstore = NoMap
    /\ qlog = <<>>
    /\ qn = 0

\* IngestDocument up to the call of StoreChunks and StoreChunks up to the
\* embedding call: part_002 lines 32-58, part_001 lines 73-82.  readOk is
\* whether io.ReadAll of the content succeeds (always, for IngestText).
IngestDocumentEnter(p) ==
    /\ qpc[p] = "idle"
    /\ qn < MaxIngests
    /\ qn' = qn + 1
    /\ \E docID \in DocIds, content \in DocContents, readOk \in BOOLEAN :
          LET docChunks == DocChunks(docID, ChunkBySentences(qsvc, content))
          IN  /\ qreq' = [qreq EXCEPT ![p] = [docID |-> docID, content |-> content]]
              /\ UNCHANGED qext
              /\ IF ~readOk
                 THEN /\ qchunks' = [qchunks EXCEPT ![p] = <<>>]
                      /\ qret' = [qret EXCEPT ![p] =
                            [count |-> 0,
                             err |-> "failed to read content: read error"]]
                      /\ qpc' = [qpc EXCEPT ![p] = "failed"]
                 ELSE /\ qchunks' = [qchunks EXCEPT ![p] = docChunks]
                      /\ IF Len(docChunks) = 0
                         THEN /\ qret' = [qret EXCEPT ![p] = NoReturn]
                              /\ qpc' = [qpc EXCEPT ![p] = "done"]
                         ELSE /\ qret' = [qret EXCEPT ![p] = NoReturn]
                              /\ qpc' = [qpc EXCEPT ![p] = "embed"]
    /\ UNCHANGED <<qsvc, qstore, qlog, notDocVars>>

\* the embedding provider returns: part_001 lines 85-88
StoreChunksEmbed(p) ==
    /\ qpc[p] = "embed"
    /\ qext' = [qext EXCEPT ![p] = @ + 1]
    /\ \E ok \in BOOLEAN :
          IF ok
          THEN /\ qpc' = [qpc EXCEPT ![p] = "upsert"]
               /\ UNCHANGED qret
          ELSE /\ qpc' = [qpc EXCEPT ![p] = "failed"]
               /\ qret' = [qret EXCEPT ![p] =
                     [count |-> 0,
                      err |-> "failed to generate embeddings: provider error"]]
    /\ UNCHANGED <<qsvc, qreq, qchunks, qstore, qlog, qn, notDocVars>>

\* a store that writes the points one by one and stops at the first failure
StoreChunksUpsert_ChunkByChunk(p) ==
    /\ qpc[p] = "upsert"
    /\ qext' = [qext EXCEPT ![p] = @ + 1]
    /\ \E ok \in BOOLEAN :
          IF ok
          THEN /\ qstore' = Upsert(qstore, qchunks[p])
               /\ qlog' = Append(qlog, qreq[p])
               /\ qret' = [qret EXCEPT ![p] =
                     [count |-> Len(qchunks[p]), err |-> ""]]
               /\ qpc' = [qpc EXCEPT ![p] = "done"]
          ELSE /\ qstore' = Upsert(qstore, SubSeq(qchunks[p], 1, 1))
               /\ qret' = [qret EXCEPT ![p] =
                     [count |-> 0,
                      err |-> "failed to upsert points to Qdrant: rpc error"]]
               /\ qpc' = [qpc EXCEPT ![p] = "failed"]
               /\ UNCHANGED qlog
    /\ UNCHANGED <<qsvc, qreq, qchunks, qn, notDocVars>>

\* client.Upsert with all points of the document returns, and IngestDocument
\* returns: part_001 lines 148-156, part_002 lines 59-64
StoreChunksUpsert(p) ==
    /\ qpc[p] = "upsert"
    /\ qext' = [qext EXCEPT ![p] = @ + 1]
    /\ \E ok \in BOOLEAN :
          IF ok
          THEN /\ qstore' = Upsert(qstore, qchunks[p])
               /\ qlog' = Append(qlog, qreq[p])
               /\ qret' = [qret EXCEPT ![p] =
                     [count |-> Len(qchunks[p]), err |-> ""]]
               /\ qpc' = [qpc EXCEPT ![p] = "done"]
          ELSE /\ qret' = [qret EXCEPT ![p] =
                     [count |-> 0,
                      err |-> "failed to upsert points to Qdrant: rpc error"]]
               /\ qpc' = [qpc EXCEPT ![p] = "failed"]
               /\ UNCHANGED <<qstore, qlog>>
    /\ UNCHANGED <<qsvc, qreq, qchunks, qn, notDocVars>>

\* the caller has the result; the slot is free for the next request
IngestDocumentReturn(p) ==
    /\ qpc[p] \in {"done", "failed"}
    /\ qpc' = [qpc EXCEPT ![p] = "idle"]
    /\ qreq' = [qreq EXCEPT ![p] = NoRequest]
    /\ qchunks' = [qchunks EXCEPT ![p] = <<>>]
    /\ qret' = [qret EXCEPT ![p] = NoReturn]
    /\ qext' = [qext EXCEPT ![p] = 0]
    /\ UNCHANGED <<qsvc, qstore, qlog, qn, notDocVars>>

DocNext ==
    \E p \in Slots :
        \/ IngestDocumentEnter(p)
        \/ StoreChunksEmbed(p)
        \/ StoreChunksUpsert(p)
        \/ IngestDocumentReturn(p)

\* the document ingestion variables when no request is modelled
DocIdle ==
    /\ qsvc = NewService(0, -1)
    /\ qreq = [p \in Slots |-> NoRequest]
    /\ qpc = [p \in Slots |-> "idle"]
    /\ qchunks = [p \in Slots |-> <<>>]
    /\ qret = [p \in Slots |-> NoReturn]
    /\ qext = [p \in Slots |-> 0]
    /\ qstore = NoMap
    /\ qlog = <<>>
    /\ qn = 0

---------------------------------------------------------------------------
(* pkg/httpapi/router.go: Handler.RAGQuery over the retriever, the ranker
   and the generator *)

\* a filter that keeps only the scores above the threshold
RECURSIVE FilterByThreshold_Strict(_, _)
FilterByThreshold_Strict(rs, threshold) ==
    IF Len(rs) = 0 THEN <<>>
    ELSE (IF ScoreLess(threshold, rs[1].score) THEN <<rs[1]>> ELSE <<>>)
         \o FilterByThreshold_Strict(Tail(rs), threshold)

\* Service.FilterByThreshold: the chunks with Score >= threshold, in order
RECURSIVE FilterByThreshold(_, _)
FilterByThreshold(rs, threshold) ==
    IF Len(rs) = 0 THEN <<>>
    ELSE (IF ~ScoreLess(rs[1].score, threshold) THEN <<rs[1]>> ELSE <<>>)
         \o FilterByThreshold(Tail(rs), threshold)

\* the fields of the embedded DocumentChunk that the generator reads
PromotedFields(rs) ==
    [i \in 1..Len(rs) |->
        [DocumentID |-> rs[i].chunk.DocumentID, Content |-> rs[i].chunk.Content]]

DefaultRagLimit == 5
ZeroScore == [num |-> 0, den |-> 1]
OneScore == [num |-> 1, den |-> 1]

RagQueries == {"", "a", "A b"}
RagLimits == {0, 1, 2}
RagThresholds == {[num |-> -1, den |-> 1], ZeroScore, [num |-> 1, den |-> 2],
                  [num |-> 1, den |-> 1]}

\* what the collection can return for a similarity query with this limit
RagStoreResults(limit) ==
    UNION {[1..n -> RankDocuments \X RankContents] :
              n \in 0..(IF limit < MaxRagChunks THEN limit ELSE MaxRagChunks)}

NoRagResponse == [Code |-> 0, Error |-> ""]

RagInit ==
    /\ apc = "bind"
    /\ \E wellFormed \in BOOLEAN, query \in RagQueries, limit \in RagLimits,
          threshold \in RagThresholds :
          areq = [wellFormed |-> wellFormed, Query |-> query, Limit |-> limit,
                  Threshold |-> threshold]
    /\ achunks = <<>>
    /\ aranked = <<>>
    /\ atrace = <<>>
    /\ aresp = NoRagResponse
    /\ acalls = 0

\* lines 222-236: ShouldBindJSON (Query is binding:"required") and the
\* default limit
RAGQueryBind ==
    /\ apc = "bind"
    /\ IF ~areq.wellFormed \/ areq.Query = ""
       THEN /\ aresp' = [Code |-> 400, Error |-> "invalid_request"]
            /\ apc' = "done"
            /\ UNCHANGED areq
       ELSE /\ areq' = [areq EXCEPT !.Limit =
                           IF areq.Limit <= 0 THEN DefaultRagLimit ELSE areq.Limit]
            /\ apc' = "retrieve"
            /\ UNCHANGED aresp
    /\ UNCHANGED <<achunks, aranked, atrace, acalls, notRagVars>>

\* lines 239-247, RetrieveRelevantChunks, that is SearchSimilar, up to the
\* return of GenerateEmbedding (part_001 lines 160-173)
RAGQueryRetrieveEmbed ==
    /\ apc = "retrieve"
    /\ atrace' = Append(atrace, "retrieve")
    /\ \E ok \in BOOLEAN :
          IF ok
          THEN /\ apc' = "search"
               /\ UNCHANGED aresp
          ELSE /\ aresp' = [Code |-> 500, Error |-> "retrieval_failed"]
               /\ apc' = "done"
    /\ UNCHANGED <<areq, achunks, aranked, acalls, notRagVars>>

\* a handler that writes the retrieval error and goes on to the next stage
RAGQueryRetrieve_NoReturn ==
    /\ apc = "search"
    /\ \/ /\ aresp' = [Code |-> 500, Error |-> "retrieval_failed"]
          /\ UNCHANGED achunks
       \/ /\ \E f \in RagStoreResults(areq.Limit) :
                achunks' = [i \in DOMAIN f |->
                               [ID |-> i, DocumentID |-> f[i][1],
                                Content |-> f[i][2], ChunkIndex |-> i - 1]]
          /\ UNCHANGED aresp
    /\ apc' = "rank"
    /\ UNCHANGED <<areq, aranked, atrace, acalls, notRagVars>>

\* client.Query returns and the points are decoded (part_001 lines 181-202);
\* the handler checks the error (router.go lines 240-247).  The search can
\* fail in the query or in the decoding of a point.
RAGQueryRetrieve ==
    /\ apc = "search"
    /\ \/ /\ aresp' = [Code |-> 500, Error |-> "retrieval_failed"]
          /\ apc' = "done"
          /\ UNCHANGED achunks
       \/ /\ \E f \in RagStoreResults(areq.Limit) :
                achunks' = [i \in DOMAIN f |->
                               [ID |-> i, DocumentID |-> f[i][1],
                                Content |-> f[i][2], ChunkIndex |-> i - 1]]
          /\ apc' = "rank"
          /\ UNCHANGED aresp
    /\ UNCHANGED <<areq, aranked, atrace, acalls, notRagVars>>

\* lines 250-258: ranker.Service.RankChunks, which returns a nil error on
\* every path, so the ranking_failed branch is never taken
RAGQueryRank ==
    /\ apc = "rank"
    /\ atrace' = Append(atrace, "rank")
    /\ aranked' \in sortSlice(ScoreChunks(areq.Query, achunks))
    /\ apc' = "filter"
    /\ UNCHANGED <<areq, achunks, aresp, acalls, notRagVars>>

\* lines 261-263
RAGQueryFilter ==
    /\ apc = "filter"
    /\ IF ScoreLess(ZeroScore, areq.Threshold)
       THEN /\ aranked' = FilterByThreshold(aranked, areq.Threshold)
            /\ atrace' = Append(atrace, "filter")
       ELSE UNCHANGED <<aranked, atrace>>
    /\ apc' = "generate"
    /\ UNCHANGED <<areq, achunks, aresp, acalls, notRagVars>>

\* lines 266-283: GenerateResponse and the response
RAGQueryGenerate ==
    /\ apc = "generate"
    /\ atrace' = Append(atrace, "generate")
    /\ IF ShortCircuit(aranked)
       THEN /\ aresp' = [Code |-> 200, Error |-> ""]
            /\ UNCHANGED acalls
       ELSE /\ acalls' = acalls + 1
            /\ \E outcome \in ProviderOutcomes(FALSE) :
                  aresp' = IF GenerateResult(PromotedFields(aranked),
                                             generateWithLLM(outcome)).err # ""
                           THEN [Code |-> 500, Error |-> "generation_failed"]
                           ELSE [Code |-> 200, Error |-> ""]
    /\ apc' = "done"
    /\ UNCHANGED <<areq, achunks, aranked, notRagVars>>

RagNext ==
    \/ RAGQueryBind
    \/ RAGQueryRetrieveEmbed
    \/ RAGQueryRetrieve
    \/ RAGQueryRank
    \/ RAGQueryFilter
    \/ RAGQueryGenerate

\* the handler's variables when no RAG query is modelled
RagIdle ==
    /\ apc = "idle"
    /\ areq = [wellFormed |-> FALSE, Query |-> "", Limit |-> 0,
               Threshold |-> ZeroScore]
    /\ achunks = <<>>
    /\ aranked = <<>>
    /\ atrace = <<>>
    /\ aresp = NoRagResponse
    /\ acalls = 0

---------------------------------------------------------------------------
(* internal/store: QdrantStore.CreateCollection *)

EmbeddingDimensions == {2, 3}
NoCollection == 0

CollInit ==
    /\ mpc = "call"
    /\ marg \in -1..MaxVectorSize
    /\ msize = marg
    /\ mdims \in EmbeddingDimensions
    /\ mexists \in {NoCollection} \cup EmbeddingDimensions
    /\ mcalls = <<>>
    /\ merr = ""

\* lines 433-435
CreateCollectionEnter ==
    /\ mpc = "call"
    /\ msize' = IF marg <= 0 THEN mdims ELSE marg
    /\ mpc' = "list"
    /\ UNCHANGED <<marg, mdims, mexists, mcalls, merr, notCollVars>>

\* lines 438-448: client.ListCollections returns
CreateCollectionList ==
    /\ mpc = "list"
    /\ mcalls' = Append(mcalls, "ListCollections")
    /\ \E ok \in BOOLEAN :
          IF ~ok
          THEN /\ merr' = "failed to list collections: rpc error"
               /\ mpc' = "done"
          ELSE /\ UNCHANGED merr
               /\ mpc' = IF mexists # NoCollection THEN "done" ELSE "create"
    /\ UNCHANGED <<marg, msize, mdims, mexists, notCollVars>>

\* lines 451-466: client.CreateCollection returns
CreateCollectionCreate ==
    /\ mpc = "create"
    /\ mcalls' = Append(mcalls, "CreateCollection")
    /\ \E ok \in BOOLEAN :
          IF ok
          THEN /\ mexists' = msize
               /\ UNCHANGED merr
          ELSE /\ merr' = "failed to create collection: rpc error"
               /\ UNCHANGED mexists
    /\ mpc' = "done"
    /\ UNCHANGED <<marg, msize, mdims, notCollVars>>

CollNext ==
    \/ CreateCollectionEnter
    \/ CreateCollectionList
    \/ CreateCollectionCreate

\* the collection variables when no CreateCollection call is modelled
CollIdle ==
    /\ mpc = "idle"
    /\ marg = 0
    /\ msize = 0
    /\ mdims = 0
    /\ mexists = NoCollection
    /\ mcalls = <<>>
    /\ merr = ""

---------------------------------------------------------------------------
(* internal/ranker: Service.FilterByThreshold on any ranked list *)

FilterScores == {ZeroScore, [num |-> 1, den |-> 3], [num |-> 1, den |-> 2],
                 [num |-> 2, den |-> 2]}

\* ranked lists in any order of scores: ID is the position in the list
FilterInputs ==
    UNION {[1..n -> FilterScores] : n \in 0..MaxFilterChunks}

FilterInit ==
    /\ \E f \in FilterInputs :
          finput = [i \in DOMAIN f |->
                       [chunk |-> [ID |-> i, DocumentID |-> "d1", Content |-> "",
                                   ChunkIndex |-> i - 1],
                        score |-> f[i]]]
    /\ fthreshold \in RagThresholds
    /\ foutput = <<>>
    /\ fpc = "call"

FilterCall ==
    /\ fpc = "call"
    /\ foutput' = FilterByThreshold(finput, fthreshold)
    /\ fpc' = "done"
    /\ UNCHANGED <<finput, fthreshold, notFilterVars>>

FilterNext == FilterCall

\* the filter's variables when no FilterByThreshold call is modelled
FilterIdle ==
    /\ finput = <<>>
    /\ fthreshold = ZeroScore
    /\ foutput = <<>>
    /\ fpc = "idle"

---------------------------------------------------------------------------
(* internal/generate: Service.extractSources on any list of ranked chunks *)

\* ranked chunks, in score order or not, several of them of one document
SrcInputs ==
    UNION {[1..n -> GenDocuments \X {ZeroScore, OneScore}] :
              n \in 0..MaxSourceChunks}

SrcInit ==
    /\ \E f \in SrcInputs :
          sinput = [i \in DOMAIN f |->
                       [DocumentID |-> f[i][1], Content |-> "x", Score |-> f[i][2]]]
    /\ soutput = <<>>
    /\ spc = "call"

SrcCall ==
    /\ spc = "call"
    /\ soutput' = extractSources(sinput)
    /\ spc' = "done"
    /\ UNCHANGED <<sinput, notSrcVars>>

SrcNext == SrcCall

\* the variables of source extraction when no call is modelled
SrcIdle ==
    /\ sinput = <<>>
    /\ soutput = <<>>
    /\ spc = "idle"

---------------------------------------------------------------------------
(* internal/store QdrantStore.StoreChunks over internal/embedding *)

\* A vector is the text it was computed from and its length; NilVector is
\* the nil slice a provider leaves for a text it skipped.
Vector(t, dim) == [src |-> t, dim |-> dim]
NilVector == [src |-> "", dim |-> 0]

EmbProviders == {"openai", "mock"}
EmbTexts == {"", "a", "b"}
EmbResponses == {"ok", "short", "error"}

\* the non-empty texts, in order (OpenAIService.GenerateEmbeddings 67-73)
RECURSIVE ValidTexts(_)
ValidTexts(texts) ==
    IF texts = <<>> THEN <<>>
    ELSE IF Head(texts) # "" THEN <<Head(texts)>> \o ValidTexts(Tail(texts))
    ELSE ValidTexts(Tail(texts))

\* OpenAIService.GenerateEmbeddings: a pair <<embeddings, error>>.  resp is
\* the client's answer: one vector per text of the request ("ok"), one
\* vector too few ("short") or a failure ("error").
OpenAIGenerateEmbeddings(texts, dim, resp) ==
    LET validTexts == ValidTexts(texts)
        data == IF resp = "ok" THEN validTexts
                ELSE SubSeq(validTexts, 1, Len(validTexts) - 1)
    IN  IF Len(texts) = 0 THEN <<<<>>, "texts cannot be empty">>
        ELSE IF Len(validTexts) = 0 THEN <<<<>>, "no valid texts provided">>
        ELSE IF resp = "error" THEN <<<<>>, "failed to create embeddings">>
        ELSE IF Len(data) # Len(validTexts)
             THEN <<<<>>, "embedding count mismatch">>
        ELSE <<[i \in 1..Len(data) |-> Vector(data[i], dim)], "">>

\* MockService.GenerateEmbedding on a non-empty text
MockGenerateEmbedding(t, dim) == Vector(t, dim)

\* MockService.GenerateEmbeddings: a pair <<embeddings, error>>
MockGenerateEmbeddings(texts, dim) ==
    IF Len(texts) = 0 THEN <<<<>>, "texts cannot be empty">>
    ELSE <<[i \in 1..Len(texts) |->
               IF texts[i] = "" THEN NilVector
               ELSE MockGenerateEmbedding(texts[i], dim)], "">>

GenerateEmbeddings(prov, texts, dim, resp) ==
    IF prov = "openai" THEN OpenAIGenerateEmbeddings(texts, dim, resp)
    ELSE MockGenerateEmbeddings(texts, dim)

EmbInit ==
    /\ eprov \in EmbProviders
    /\ edim \in EmbeddingDimensions
    /\ etexts \in UNION {[1..n -> EmbTexts] : n \in 0..MaxEmbedTexts}
    /\ eresp \in EmbResponses
    /\ eembs = <<>>
    /\ eerr = ""
    /\ epoints = <<>>
    /\ estored = <<>>
    /\ epc = "embed"

\* StoreChunks up to the return of GenerateEmbeddings
StoreChunksGenerate ==
    /\ epc = "embed"
    /\ IF Len(etexts) = 0
       THEN /\ epc' = "done"
            /\ UNCHANGED <<eembs, eerr>>
       ELSE LET r == GenerateEmbeddings(eprov, etexts, edim, eresp)
            IN  /\ eembs' = r[1]
                /\ eerr' = IF r[2] = "" THEN ""
                           ELSE "failed to generate embeddings"
                /\ epc' = IF r[2] = "" THEN "points" ELSE "done"
    /\ UNCHANGED <<eprov, edim, etexts, eresp, epoints, estored, notEmbVars>>

\* the loop that builds one point per chunk from embeddings[i]; an index past
\* the end of embeddings is a run-time panic
StoreChunksPoints ==
    /\ epc = "points"
    /\ IF Len(eembs) < Len(etexts)
       THEN /\ epc' = "panic"
            /\ UNCHANGED epoints
       ELSE /\ epoints' = [i \in 1..Len(etexts) |->
                              [Id |-> i, Content |-> etexts[i],
                               Vectors |-> eembs[i]]]
            /\ epc' = "upsert"
    /\ UNCHANGED <<eprov, edim, etexts, eresp, eembs, eerr, estored,
                   notEmbVars>>

\* client.Upsert: the collection takes the points or answers with an error
StoreChunksUpsertPoints ==
    /\ epc = "upsert"
    /\ \E ok \in BOOLEAN :
          IF ok THEN /\ estored' = epoints
                     /\ UNCHANGED eerr
          ELSE /\ eerr' = "failed to upsert points to Qdrant"
               /\ UNCHANGED estored
    /\ epc' = "done"
    /\ UNCHANGED <<eprov, edim, etexts, eresp, eembs, epoints, notEmbVars>>

EmbNext ==
    \/ StoreChunksGenerate
    \/ StoreChunksPoints
    \/ StoreChunksUpsertPoints

\* the variables of StoreChunks over a provider when no call is modelled
EmbIdle ==
    /\ eprov = "mock"
    /\ edim = 0
    /\ etexts = <<>>
    /\ eresp = "ok"
    /\ eembs = <<>>
    /\ eerr = ""
    /\ epoints = <<>>
    /\ estored = <<>>
    /\ epc = "idle"

---------------------------------------------------------------------------
(* internal/ingest: Service.generateDocumentID on any file path *)

\* file paths: strings of '.', '/', '_' and a letter that end in the letter
PathAlphabet == {".", "/", "_", "a"}
FilePaths == {p \o "a" : p \in StringsUpTo(PathAlphabet, MaxPathLen - 1)}

PathIdInit ==
    /\ ppath \in FilePaths
    /\ pid = ""
    /\ ppc = "call"

PathIdCall ==
    /\ ppc = "call"
    /\ pid' = generateDocumentID(ppath)
    /\ ppc' = "done"
    /\ UNCHANGED <<ppath, notPathIdVars>>

PathIdNext == PathIdCall

\* the variables of generateDocumentID when no call is modelled
PathIdIdle ==
    /\ ppath = ""
    /\ pid = ""
    /\ ppc = "idle"

---------------------------------------------------------------------------
(* internal/chunk: Service.findBestBreakPoint on any text *)

BreakChunkSizes == {4, 5}
BreakStarts == {0, 1}

\* ChunkText calls findBestBreakPoint(text, start, start + chunkSize) only
\* when start + chunkSize < len(text) (chunk.go lines 49-59)
BrkInit ==
    /\ \E cs \in BreakChunkSizes : bsvc = NewService(cs, 0)
    /\ btext \in StringsUpTo(TextAlphabet, MaxBreakLen)
    /\ bstart \in BreakStarts
    /\ bstart + bsvc.chunkSize < Len(btext)
    /\ bend = 0
    /\ bpc = "call"

BrkCall ==
    /\ bpc = "call"
    /\ bend' = findBestBreakPoint(bsvc, btext, bstart, bstart + bsvc.chunkSize)
    /\ bpc' = "done"
    /\ UNCHANGED <<bsvc, btext, bstart, notBrkVars>>

BrkNext == BrkCall

\* the variables of findBestBreakPoint when no call is modelled
BrkIdle ==
    /\ bsvc = NewService(0, -1)
    /\ btext = ""
    /\ bstart = 0
    /\ bend = 0
    /\ bpc = "idle"

---------------------------------------------------------------------------
(* internal/ingest: a history of IngestText and DeleteDocument calls *)

HistDocIds == {"a", "ab"}
HistContents == {"", "One. Two!", "No."}
\* the ids DeleteChunk is called with: the ids of chunks and 0
ZeroChunkId == "0"
HistChunkIds ==
    {GenerateChunkID(d, i) : d \in HistDocIds, i \in 0..1} \cup {ZeroChunkId}
NoCall == [op |-> "none", docID |-> "", err |-> ""]
NoIngest == [docID |-> "", chunks |-> <<>>]

\* the chunks of a list, as a set
ChunkSet(docChunks) == {docChunks[i] : i \in 1..Len(docChunks)}

HistInit ==
    /\ hsvc = NewService(5, 0)
    /\ hstore = NoMap
    /\ hlast = [d \in HistDocIds |-> {}]
    /\ hop = NoCall
    /\ hcur = NoIngest
    /\ hpc = "idle"
    /\ hn = 0

\* IngestText(docID, content) up to the embedding call of StoreChunks, or to
\* its return when there is nothing to store: part_002 lines 32-70,
\* part_001 lines 73-82
HistIngestText ==
    /\ hpc = "idle"
    /\ hn < MaxCalls
    /\ hn' = hn + 1
    /\ \E docID \in HistDocIds, content \in HistContents :
          LET docChunks == DocChunks(docID, ChunkBySentences(hsvc, content))
          IN  IF Len(docChunks) = 0
              THEN /\ hop' = [op |-> "ingest", docID |-> docID, err |-> ""]
                   /\ hlast' = [hlast EXCEPT ![docID] = {}]
                   /\ UNCHANGED <<hcur, hpc>>
              ELSE /\ hcur' = [docID |-> docID, chunks |-> docChunks]
                   /\ hpc' = "embed"
                   /\ UNCHANGED <<hop, hlast>>
    /\ UNCHANGED <<hsvc, hstore, notHistVars>>

\* GenerateEmbeddings returns: part_001 lines 85-88
HistStoreChunksEmbed ==
    /\ hpc = "embed"
    /\ \E ok \in BOOLEAN :
          IF ok
          THEN /\ hpc' = "upsert"
               /\ UNCHANGED <<hop, hcur>>
          ELSE /\ hop' = [op |-> "ingest", docID |-> hcur.docID,
                          err |-> "failed to generate embeddings"]
               /\ hcur' = NoIngest
               /\ hpc' = "idle"
    /\ UNCHANGED <<hsvc, hstore, hlast, hn, notHistVars>>

\* client.Upsert returns and IngestText with it: part_001 lines 148-156,
\* part_002 lines 59-64
HistStoreChunksUpsert ==
    /\ hpc = "upsert"
    /\ \E ok \in BOOLEAN :
          IF ok
          THEN /\ hstore' = Upsert(hstore, hcur.chunks)
               /\ hlast' = [hlast EXCEPT ![hcur.docID] = ChunkSet(hcur.chunks)]
               /\ hop' = [op |-> "ingest", docID |-> hcur.docID, err |-> ""]
          ELSE /\ hop' = [op |-> "ingest", docID |-> hcur.docID,
                          err |-> "failed to upsert points to Qdrant"]
               /\ UNCHANGED <<hstore, hlast>>
    /\ hcur' = NoIngest
    /\ hpc' = "idle"
    /\ UNCHANGED <<hsvc, hn, notHistVars>>

\* The collection without the points the filter of DeleteDocument selects.
\* The filter is Match_Text on document_id: without a full-text index on
\* the field (CreateCollection makes none) it selects the points whose
\* document_id contains documentID.
DeleteByDocumentID(st, documentID) ==
    [id \in {i \in DOMAIN st : ~Contains(st[i].DocumentID, documentID)} |->
        st[id]]

\* Service.DeleteDocument(docID) over QdrantStore.DeleteDocument: part_002
\* lines 73-75, part_001 lines 378-411; ok is whether client.Delete
\* succeeds.  It can run while an IngestText call waits.
HistDeleteDocument ==
    /\ hn < MaxCalls
    /\ hn' = hn + 1
    /\ \E docID \in HistDocIds \cup {""}, ok \in BOOLEAN :
          IF docID = ""
          THEN /\ hop' = [op |-> "delete", docID |-> docID,
                          err |-> "document ID cannot be empty"]
               /\ UNCHANGED <<hstore, hlast>>
          ELSE IF ~ok
          THEN /\ hop' = [op |-> "delete", docID |-> docID,
                          err |-> "failed to delete document from Qdrant"]
               /\ UNCHANGED <<hstore, hlast>>
          ELSE /\ hop' = [op |-> "delete", docID |-> docID, err |-> ""]
               /\ hstore' = DeleteByDocumentID(hstore, docID)
               /\ hlast' = [hlast EXCEPT ![docID] = {}]
    /\ UNCHANGED <<hsvc, hcur, hpc, notHistVars>>

\* QdrantStore.DeleteChunk(chunkID): part_001 lines 414-429; ok is whether
\* client.Delete succeeds
HistDeleteChunk ==
    /\ hn < MaxCalls
    /\ hn' = hn + 1
    /\ \E chunkID \in HistChunkIds, ok \in BOOLEAN :
          IF chunkID = ZeroChunkId
          THEN /\ hop' = [op |-> "delete chunk", docID |-> "",
                          err |-> "chunk ID cannot be zero"]
               /\ UNCHANGED <<hstore, hlast>>
          ELSE IF ~ok
          THEN /\ hop' = [op |-> "delete chunk", docID |-> "",
                          err |-> "failed to delete chunk from Qdrant"]
               /\ UNCHANGED <<hstore, hlast>>
          ELSE /\ hop' = [op |-> "delete chunk", docID |-> "", err |-> ""]
               /\ hstore' = [id \in DOMAIN hstore \ {chunkID} |-> hstore[id]]
               /\ hlast' = [d \in HistDocIds |->
                               {c \in hlast[d] : c.ID # chunkID}]
    /\ UNCHANGED <<hsvc, hcur, hpc, notHistVars>>

HistNext ==
    \/ HistIngestText
    \/ HistStoreChunksEmbed
    \/ HistStoreChunksUpsert
    \/ HistDeleteDocument
    \/ HistDeleteChunk

\* the variables of the call history when no call is modelled
HistIdle ==
    /\ hsvc = NewService(0, -1)
    /\ hstore = NoMap
    /\ hlast = <<>>
    /\ hop = NoCall
    /\ hcur = NoIngest
    /\ hpc = "idle"
    /\ hn = 0

---------------------------------------------------------------------------
(* internal/ingest: scanDirectory and the loop of IngestDirectory over a
   directory tree *)

\* The files a tree can hold, relative to the root, in the lexical order
\* filepath.Walk visits them ('.' < '_' < 'a'), and what each one holds.
TreeFiles == <<".b", "a/b", "a_b", "b">>
TreeContents == <<"One.", "Two!", "No.", "Yes?">>
WalkRoots == {".", "docs"}

\* filepath.Join(root, rel) for a clean relative rel
JoinPath(root, rel) == IF root = "." THEN rel ELSE root \o "/" \o rel

\* whether rel lies in a sub-directory of the root
InSubDir(rel) == \E i \in 0..(Len(rel) - 1) : At(rel, i) = "/"

\* scanDirectory from index k on: the files of the tree in walk order;
\* without recursive the sub-directories are skipped
RECURSIVE scanFrom(_, _, _, _)
scanFrom(root, recursive, tree, k) ==
    IF k > Len(TreeFiles) THEN <<>>
    ELSE (IF k \in tree /\ (recursive \/ ~InSubDir(TreeFiles[k]))
          THEN <<[path |-> JoinPath(root, TreeFiles[k]), readable |-> TRUE,
                  content |-> TreeContents[k]]>>
          ELSE <<>>)
         \o scanFrom(root, recursive, tree, k + 1)

scanDirectory(root, recursive, tree) == scanFrom(root, recursive, tree, 1)

WalkInit ==
    /\ wsvc = NewService(0, -1)
    /\ wroot \in WalkRoots
    /\ wrec \in BOOLEAN
    /\ wtree \in SUBSET (1..Len(TreeFiles))
    /\ wfiles = <<>>
    /\ widx = 1
    /\ wresults = <<>>
    /\ wstore = NoMap
    /\ wcur = NoPending
    /\ wpc = "scan"

\* IngestDirectory up to its loop: lines 78-88
WalkScan ==
    /\ wpc = "scan"
    /\ wfiles' = scanDirectory(wroot, wrec, wtree)
    /\ wpc' = "loop"
    /\ UNCHANGED <<wsvc, wroot, wrec, wtree, widx, wresults, wstore, wcur,
                   notWalkVars>>

\* the loop calls processFile (line 92), which runs up to the embedding call
\* of StoreChunks or returns before it
WalkProcessFile ==
    /\ wpc = "loop"
    /\ widx <= Len(wfiles)
    /\ LET r == processFileRead(wsvc, wfiles[widx])
       IN  /\ wcur' = [chunks |-> r.chunks, result |-> r.result]
           /\ wpc' = r.pc
    /\ UNCHANGED <<wsvc, wroot, wrec, wtree, wfiles, widx, wresults, wstore,
                   notWalkVars>>

\* GenerateEmbeddings returns: part_001 lines 85-88
WalkStoreEmbed ==
    /\ wpc = "embed"
    /\ \E ok \in BOOLEAN :
          IF ok
          THEN /\ wpc' = "upsert"
               /\ UNCHANGED wcur
          ELSE /\ wcur' = processFileFailed(wcur,
                              "failed to generate embeddings: provider error")
               /\ wpc' = "result"
    /\ UNCHANGED <<wsvc, wroot, wrec, wtree, wfiles, widx, wresults, wstore,
                   notWalkVars>>

\* client.Upsert returns: part_001 lines 148-156
WalkStoreUpsert ==
    /\ wpc = "upsert"
    /\ \E ok \in BOOLEAN :
          IF ok
          THEN /\ wstore' = Upsert(wstore, wcur.chunks)
               /\ wcur' = processFileSucceeded(wcur)
          ELSE /\ wcur' = processFileFailed(wcur,
                              "failed to upsert points to Qdrant: rpc error")
               /\ UNCHANGED wstore
    /\ wpc' = "result"
    /\ UNCHANGED <<wsvc, wroot, wrec, wtree, wfiles, widx, wresults,
                   notWalkVars>>

\* the rest of the loop body once processFile has returned: lines 93-101
WalkStep ==
    /\ wpc = "result"
    /\ wresults' = Append(wresults, wcur.result)
    /\ widx' = widx + 1
    /\ wcur' = NoPending
    /\ wpc' = "loop"
    /\ UNCHANGED <<wsvc, wroot, wrec, wtree, wfiles, wstore, notWalkVars>>

\* the loop is over: lines 104-110
WalkReturn ==
    /\ wpc = "loop"
    /\ widx > Len(wfiles)
    /\ wpc' = "done"
    /\ UNCHANGED <<wsvc, wroot, wrec, wtree, wfiles, widx, wresults, wstore,
                   wcur, notWalkVars>>

WalkNext ==
    \/ WalkScan
    \/ WalkProcessFile
    \/ WalkStoreEmbed
    \/ WalkStoreUpsert
    \/ WalkStep
    \/ WalkReturn

\* the variables of the directory walk when no request is modelled
WalkIdle ==
    /\ wsvc = NewService(0, -1)
    /\ wroot = ""
    /\ wrec = FALSE
    /\ wtree = {}
    /\ wfiles = <<>>
    /\ widx = 1
    /\ wresults = <<>>
    /\ wstore = NoMap
    /\ wcur = NoPending
    /\ wpc = "idle"

---------------------------------------------------------------------------
(* internal/chunk: Service.ChunkBySentences on any text *)

SentenceAlphabet == {"a", ".", " ", "|"}
SentenceChunkSizes == {3, 1000}

SentInit ==
    /\ \E cs \in SentenceChunkSizes : nsvc = NewService(cs, 0)
    /\ ntext \in StringsUpTo(SentenceAlphabet, MaxSentenceLen)
    /\ nchunks = <<>>
    /\ npc = "call"

SentCall ==
    /\ npc = "call"
    /\ nchunks' = ChunkBySentences(nsvc, ntext)
    /\ npc' = "done"
    /\ UNCHANGED <<nsvc, ntext, notSentVars>>

SentNext == SentCall

\* the variables of ChunkBySentences when no call is modelled
SentIdle ==
    /\ nsvc = NewService(0, -1)
    /\ ntext = ""
    /\ nchunks = <<>>
    /\ npc = "idle"

---------------------------------------------------------------------------
(* Specifications *)

ChunkSpecInit == ChunkInit /\ RankIdle /\ CodecIdle /\ GenIdle /\ IngestIdle
    /\ DocIdle
    /\ RagIdle
    /\ CollIdle
    /\ FilterIdle
    /\ SrcIdle
    /\ EmbIdle
    /\ PathIdIdle
    /\ BrkIdle
    /\ HistIdle
    /\ WalkIdle
    /\ SentIdle
ChunkSpec == ChunkSpecInit /\ [][ChunkNext]_vars

RankSpecInit == RankInit /\ ChunkIdle /\ CodecIdle /\ GenIdle /\ IngestIdle
    /\ DocIdle
    /\ RagIdle
    /\ CollIdle
    /\ FilterIdle
    /\ SrcIdle
    /\ EmbIdle
    /\ PathIdIdle
    /\ BrkIdle
    /\ HistIdle
    /\ WalkIdle
    /\ SentIdle
RankSpec == RankSpecInit /\ [][RankNext]_vars

CodecSpecInit == CodecInit /\ ChunkIdle /\ RankIdle /\ GenIdle /\ IngestIdle
    /\ DocIdle
    /\ RagIdle
    /\ CollIdle
    /\ FilterIdle
    /\ SrcIdle
    /\ EmbIdle
    /\ PathIdIdle
    /\ BrkIdle
    /\ HistIdle
    /\ WalkIdle
    /\ SentIdle
CodecSpec == CodecSpecInit /\ [][CodecNext]_vars

GenSpecInit == GenInit /\ ChunkIdle /\ RankIdle /\ CodecIdle /\ IngestIdle
    /\ DocIdle
    /\ RagIdle
    /\ CollIdle
    /\ FilterIdle
    /\ SrcIdle
    /\ EmbIdle
    /\ PathIdIdle
    /\ BrkIdle
    /\ HistIdle
    /\ WalkIdle
    /\ SentIdle
GenSpec == GenSpecInit /\ [][GenNext]_vars
GenFairSpec == GenSpec /\ GenFairness

IngestSpecInit == IngestInit /\ ChunkIdle /\ RankIdle /\ CodecIdle /\ GenIdle
    /\ DocIdle
    /\ RagIdle
    /\ CollIdle
    /\ FilterIdle
    /\ SrcIdle
    /\ EmbIdle
    /\ PathIdIdle
    /\ BrkIdle
    /\ HistIdle
    /\ WalkIdle
    /\ SentIdle
IngestSpec == IngestSpecInit /\ [][IngestNext]_vars

DocSpecInit == DocInit /\ ChunkIdle /\ RankIdle /\ CodecIdle /\ GenIdle /\ IngestIdle
    /\ RagIdle
    /\ CollIdle
    /\ FilterIdle
    /\ SrcIdle
    /\ EmbIdle
    /\ PathIdIdle
    /\ BrkIdle
    /\ HistIdle
    /\ WalkIdle
    /\ SentIdle
DocSpec == DocSpecInit /\ [][DocNext]_vars

RagSpecInit == RagInit /\ ChunkIdle /\ RankIdle /\ CodecIdle /\ GenIdle /\ IngestIdle /\ DocIdle
    /\ CollIdle
    /\ FilterIdle
    /\ SrcIdle
    /\ EmbIdle
    /\ PathIdIdle
    /\ BrkIdle
    /\ HistIdle
    /\ WalkIdle
    /\ SentIdle
RagSpec == RagSpecInit /\ [][RagNext]_vars

CollSpecInit == CollInit /\ ChunkIdle /\ RankIdle /\ CodecIdle /\ GenIdle /\ IngestIdle /\ DocIdle /\ RagIdle
    /\ FilterIdle
    /\ SrcIdle
    /\ EmbIdle
    /\ PathIdIdle
    /\ BrkIdle
    /\ HistIdle
    /\ WalkIdle
    /\ SentIdle
CollSpec == CollSpecInit /\ [][CollNext]_vars

FilterSpecInit == FilterInit /\ ChunkIdle /\ RankIdle /\ CodecIdle /\ GenIdle /\ IngestIdle /\ DocIdle /\ RagIdle /\ CollIdle
    /\ SrcIdle
    /\ EmbIdle
    /\ PathIdIdle
    /\ BrkIdle
    /\ HistIdle
    /\ WalkIdle
    /\ SentIdle
FilterSpec == FilterSpecInit /\ [][FilterNext]_vars

SrcSpecInit == SrcInit /\ ChunkIdle /\ RankIdle /\ CodecIdle /\ GenIdle /\ IngestIdle /\ DocIdle /\ RagIdle /\ CollIdle /\ FilterIdle
    /\ EmbIdle
    /\ PathIdIdle
    /\ BrkIdle
    /\ HistIdle
    /\ WalkIdle
    /\ SentIdle
SrcSpec == SrcSpecInit /\ [][SrcNext]_vars

EmbSpecInit == EmbInit /\ ChunkIdle /\ RankIdle /\ CodecIdle /\ GenIdle /\ IngestIdle /\ DocIdle /\ RagIdle /\ CollIdle /\ FilterIdle /\ SrcIdle
    /\ PathIdIdle
    /\ BrkIdle
    /\ HistIdle
    /\ WalkIdle
    /\ SentIdle
EmbSpec == EmbSpecInit /\ [][EmbNext]_vars

PathIdSpecInit == PathIdInit /\ ChunkIdle /\ RankIdle /\ CodecIdle /\ GenIdle /\ IngestIdle /\ DocIdle /\ RagIdle /\ CollIdle /\ FilterIdle /\ SrcIdle /\ EmbIdle
    /\ BrkIdle
    /\ HistIdle
    /\ WalkIdle
    /\ SentIdle
PathIdSpec == PathIdSpecInit /\ [][PathIdNext]_vars

BrkSpecInit == BrkInit /\ ChunkIdle /\ RankIdle /\ CodecIdle /\ GenIdle /\ IngestIdle /\ DocIdle /\ RagIdle /\ CollIdle /\ FilterIdle /\ SrcIdle /\ EmbIdle /\ PathIdIdle
    /\ HistIdle
    /\ WalkIdle
    /\ SentIdle
BrkSpec == BrkSpecInit /\ [][BrkNext]_vars

HistSpecInit == HistInit /\ ChunkIdle /\ RankIdle /\ CodecIdle /\ GenIdle /\ IngestIdle /\ DocIdle /\ RagIdle /\ CollIdle /\ FilterIdle /\ SrcIdle /\ EmbIdle /\ PathIdIdle /\ BrkIdle
    /\ WalkIdle
    /\ SentIdle
HistSpec == HistSpecInit /\ [][HistNext]_vars

WalkSpecInit == WalkInit /\ ChunkIdle /\ RankIdle /\ CodecIdle /\ GenIdle /\ IngestIdle /\ DocIdle /\ RagIdle /\ CollIdle /\ FilterIdle /\ SrcIdle /\ EmbIdle /\ PathIdIdle /\ BrkIdle /\ HistIdle
    /\ SentIdle
WalkSpec == WalkSpecInit /\ [][WalkNext]_vars

SentSpecInit == SentInit /\ ChunkIdle /\ RankIdle /\ CodecIdle /\ GenIdle /\ IngestIdle /\ DocIdle /\ RagIdle /\ CollIdle /\ FilterIdle /\ SrcIdle /\ EmbIdle /\ PathIdIdle /\ BrkIdle /\ HistIdle /\ WalkIdle
SentSpec == SentSpecInit /\ [][SentNext]_vars

---------------------------------------------------------------------------
(* Chunker claims *)

\* C1: ChunkText terminates.  Within the loop the next state is a function
\* of start alone (the text and the service are fixed), so the loop ends
\* exactly when it never comes back to a start it has already processed:
\* whenever the loop is about to run an iteration, its start is not the
\* start of a window already emitted.
C1_ChunkTextTerminates ==
    (cpc = "loop" /\ start < Len(text)) =>
        \A i \in 1..Len(wstarts) : wstarts[i] # start

\* C2: after each emitted window the next start is strictly greater than
\* the start of the window just emitted.
C2_StartsStrictlyIncrease ==
    (cpc = "loop" /\ Len(wstarts) > 0) => start > wstarts[Len(wstarts)]

---------------------------------------------------------------------------
(* Chunker claims: overlap and segment length *)

\* the end of the i-th emitted window
WEnd(i) == WindowEnd(svc, text, wstarts[i])

\* the characters two consecutive windows have in common: [lo, hi)
SharedLo(i) == IF wstarts[i + 1] > wstarts[i] THEN wstarts[i + 1] ELSE wstarts[i]
SharedHi(i) == IF WEnd(i + 1) < WEnd(i) THEN WEnd(i + 1) ELSE WEnd(i)

\* C18: in ChunkText with overlap > 0, whenever a window is followed by
\* another window and the previous cut is greater than overlap, the next
\* window starts exactly overlap characters before the previous cut, and
\* the two windows share a non-empty piece of the normalized text of at
\* most overlap characters.
C18_ConsecutiveWindowsOverlap ==
    svc.chunkOverlap > 0 =>
        \A i \in 1..(Len(wstarts) - 1) :
            WEnd(i) > svc.chunkOverlap
                => /\ wstarts[i + 1] = WEnd(i) - svc.chunkOverlap
                   /\ SharedHi(i) > SharedLo(i)
                   /\ SharedHi(i) - SharedLo(i) <= svc.chunkOverlap

\* overlap 1: the second window starts after the first one's start and one
\* character before the first one's cut, and the shared character is "."
C18_Witness ==
    /\ svc.chunkOverlap = 1
    /\ Len(wstarts) >= 3
    /\ wstarts[2] > wstarts[1]
    /\ wstarts[2] = WEnd(1) - 1
    /\ WEnd(1) < Len(text)
    /\ Slice(text, SharedLo(1), SharedHi(1)) = "."

\* C19: every segment returned by ChunkText has length at most chunkSize,
\* and no window extends past start + chunkSize, whichever break point is
\* chosen.
C19_SegmentLengthAtMostChunkSize ==
    /\ \A i \in 1..Len(chunks) : Len(chunks[i]) <= svc.chunkSize
    /\ \A i \in 1..Len(wstarts) :
          /\ WEnd(i) <= wstarts[i] + svc.chunkSize
          /\ WEnd(i) > wstarts[i]
          /\ WEnd(i) <= Len(text)

\* a finished call whose first window was cut short at a break point and
\* whose second window is the rest of the text
C19_Witness ==
    /\ cpc = "done"
    /\ Len(wstarts) = 2
    /\ WEnd(1) < wstarts[1] + svc.chunkSize
    /\ WEnd(1) < Len(text)
    /\ Len(chunks[1]) = WEnd(1) - wstarts[1]
    /\ WEnd(2) = Len(text)

---------------------------------------------------------------------------
(* Ranker claims *)

\* C3: RankChunks is stable: two chunks with equal scores appear in the
\* output in their input order (ID is the position in the input).
C3_RankChunksStable ==
    rpc = "done" =>
        \A i, j \in 1..Len(ranked) :
            (i < j /\ ScoreEq(ranked[i].score, ranked[j].score))
                => ranked[i].chunk.ID < ranked[j].chunk.ID

---------------------------------------------------------------------------
(* Ranker claims: the relevance score *)

\* the number of the terms that occur in content, counted term by term
RECURSIVE TermsFound(_, _)
TermsFound(terms, content) ==
    IF Len(terms) = 0 THEN 0
    ELSE (IF Contains(content, terms[1]) THEN 1 ELSE 0)
         + TermsFound(Tail(terms), content)

\* C20: the relevance score of a chunk is (number of whitespace-delimited
\* terms of the lowercased query that occur as a substring of the lowercased
\* content) / (number of query terms), so 0 <= score <= 1; a query with no
\* terms gives every chunk score 0, with no division by zero.
C20_RelevanceScoreFormula ==
    rpc = "done" =>
        LET terms == Fields(ToLower(rquery))
        IN  \A i \in 1..Len(ranked) :
                LET sc == ranked[i].score
                    found == TermsFound(terms, ToLower(ranked[i].chunk.Content))
                IN  /\ sc.den >= 1
                    /\ ~ScoreLess(sc, ZeroScore)
                    /\ ~ScoreLess(OneScore, sc)
                    /\ Len(terms) > 0
                          => ScoreEq(sc, [num |-> found, den |-> Len(terms)])
                    /\ Len(terms) = 0 => ScoreEq(sc, ZeroScore)

\* a ranking for the query "A b" in which one chunk holds one of the two
\* terms and another holds both, in another letter case
C20_Witness ==
    /\ rpc = "done"
    /\ rquery = "A b"
    /\ \E i, j \in 1..Len(ranked) :
          /\ ranked[i].chunk.Content = "a B"
          /\ ranked[i].score = [num |-> 2, den |-> 2]
          /\ ranked[j].chunk.Content = "b"
          /\ ranked[j].score = [num |-> 1, den |-> 2]

---------------------------------------------------------------------------
(* Codec claims *)

HasPrefix(str, prefix) ==
    Len(str) >= Len(prefix) /\ SubSeq(str, 1, Len(prefix)) = prefix

\* a chunk with a non-zero id was stored by StoreChunks and read back
RoundTripped == kpc = "decoded" /\ korigin = "store" /\ kchunk.ID # 0

\* C4: codec round trip: a chunk with a non-zero id, encoded by StoreChunks
\* and decoded by pointToDocumentChunk, comes back equal in id, document_id,
\* content, chunk_index, created_at, updated_at, title, author, source,
\* language, content_type and tags.
C4_CodecRoundTrip ==
    RoundTripped =>
        /\ kresult.err = ""
        /\ kresult.chunk.ID = kchunk.ID
        /\ kresult.chunk.DocumentID = kchunk.DocumentID
        /\ kresult.chunk.Content = kchunk.Content
        /\ kresult.chunk.ChunkIndex = kchunk.ChunkIndex
        /\ kresult.chunk.CreatedAt = kchunk.CreatedAt
        /\ kresult.chunk.UpdatedAt = kchunk.UpdatedAt
        /\ kresult.chunk.Metadata.Title = kchunk.Metadata.Title
        /\ kresult.chunk.Metadata.Author = kchunk.Metadata.Author
        /\ kresult.chunk.Metadata.Source = kchunk.Metadata.Source
        /\ kresult.chunk.Metadata.Language = kchunk.Metadata.Language
        /\ kresult.chunk.Metadata.ContentType = kchunk.Metadata.ContentType
        /\ kresult.chunk.Metadata.Tags = kchunk.Metadata.Tags

\* C5: custom metadata round trip: when no Custom key starts with the
\* reserved prefix "custom_", the decoded Custom map has exactly the keys and
\* values of the original.
C5_CustomRoundTrip ==
    (/\ RoundTripped
     /\ \A k \in DOMAIN kchunk.Metadata.Custom : ~HasPrefix(k, "custom_"))
        => kresult.chunk.Metadata.Custom = kchunk.Metadata.Custom

\* the point's id is missing, non-numeric or zero
BadPointId(point) == point.Id.kind # "num" \/ point.Id.num = 0

\* the string (integer) a payload holds under key, "" (0) when the key is
\* missing or holds a value of another type
StringField(point, key) ==
    IF key \in DOMAIN point.Payload /\ point.Payload[key].kind = "string"
    THEN point.Payload[key].str ELSE ""
IntField(point, key) ==
    IF key \in DOMAIN point.Payload /\ point.Payload[key].kind = "integer"
    THEN point.Payload[key].int ELSE 0

\* C6 as claimed: decode returns an error if and only if the point's id is
\* missing, non-numeric or zero.
C6_DecodeFailsOnlyOnBadId ==
    kpc = "decoded" => (kresult.err # "" <=> BadPointId(kpoint))

\* C6, amended: decode returns an error if and only if the point's id is
\* missing, non-numeric or zero, or the point has no payload at all; with a
\* non-zero numeric id and a payload it succeeds, and every missing or
\* wrongly typed payload field decodes to the empty string (zero, the zero
\* time, no tags) instead of failing.
C6_DecodeFailsOnBadIdOrNoPayload ==
    kpc = "decoded" =>
        /\ kresult.err # "" <=> (BadPointId(kpoint) \/ ~kpoint.hasPayload)
        /\ kresult.err = "" =>
              /\ kresult.chunk.ID = kpoint.Id.num
              /\ kresult.chunk.DocumentID = StringField(kpoint, "document_id")
              /\ kresult.chunk.Content = StringField(kpoint, "content")
              /\ kresult.chunk.ChunkIndex = IntField(kpoint, "chunk_index")
              /\ kresult.chunk.Metadata.Title = StringField(kpoint, "title")
              /\ kresult.chunk.Metadata.Author = StringField(kpoint, "author")
              /\ kresult.chunk.Metadata.Source = StringField(kpoint, "source")
              /\ kresult.chunk.Metadata.Language = StringField(kpoint, "language")
              /\ kresult.chunk.Metadata.ContentType = StringField(kpoint, "content_type")
              /\ ("tags" \notin DOMAIN kpoint.Payload \/ kpoint.Payload["tags"].kind # "list")
                    => kresult.chunk.Metadata.Tags = <<>>
              /\ kresult.chunk.CreatedAt = ParseRFC3339(StringField(kpoint, "created_at"))
              /\ StringField(kpoint, "created_at") \in {"", "x"}
                    => kresult.chunk.CreatedAt = ZeroTime

\* C6 witness: a point with a non-zero numeric id whose payload lacks
\* document_id and holds title and created_at with a wrong type was decoded
\* without error.
C6_Witness ==
    /\ kpc = "decoded"
    /\ korigin = "qdrant"
    /\ kresult.err = ""
    /\ "document_id" \notin DOMAIN kpoint.Payload
    /\ "title" \in DOMAIN kpoint.Payload
    /\ kpoint.Payload["title"].kind = "integer"
    /\ "created_at" \in DOMAIN kpoint.Payload
    /\ kpoint.Payload["created_at"].kind = "list"

---------------------------------------------------------------------------
(* Generator claims *)

\* C7: GenerateResponse with an empty chunk list returns the literal
\* fallback text, an empty source list and no error, and makes no call to
\* the generation provider.
C7_EmptyChunksShortCircuit ==
    (gchunks = <<>> /\ gpc \notin {"idle", "call", "gen"}) =>
        /\ gresult.Response = "I don't have enough information to answer your question."
        /\ gresult.Sources = <<>>
        /\ gresult.err = ""
        /\ providerCalls = 0

\* C7 witness: a direct GenerateResponse call with no chunks has returned.
C7_Witness ==
    gmode = "direct" /\ gchunks = <<>> /\ gpc = "returned" /\ gquery # ""

\* C8: when the context is cancelled while the provider call started by
\* StreamResponse is in flight, the provider call is aborted and the channel
\* is closed without any value ever having been sent on it.
C8_CancelClosesWithoutValue ==
    (gmode = "stream" /\ cancelInFlight) =>
        /\ gpc \in {"send", "close", "exit"} =>
              gresult.err = "failed to generate response: failed to create chat completion: context canceled"
        /\ sent = 0

\* the safety part of C9
StreamChannelInvariant ==
    gmode = "stream" =>
        /\ sent <= 1
        /\ Len(ch) <= 1
        /\ Len(ch) + Len(received) = sent
        /\ gpc = "send" => Len(ch) < ChanCap
        /\ gpc = "close" => sent = 1 /\ ~chClosed
        /\ gpc = "exit" <=> chClosed
        /\ chClosed => sent = 1

\* C9: for every StreamResponse call the producer sends at most one value on
\* the one-slot channel and then closes it, on provider success and on
\* provider error alike; its send never blocks, whether or not a consumer
\* receives; and a consumer that receives until the channel is closed
\* finishes.
C9_StreamSendsOnceThenCloses ==
    /\ []StreamChannelInvariant
    /\ (gmode = "stream") ~> chClosed
    /\ (conspc = "recv") ~> (conspc = "done" /\ Len(received) = 1)

\* C9 witness: the provider failed, the error text was sent and received, the
\* channel is closed and the consumer's loop has ended.
C9_Witness ==
    /\ gmode = "stream"
    /\ gresult.err # ""
    /\ ~ctxCancelled
    /\ chClosed
    /\ conspc = "done"
    /\ Len(received) = 1

---------------------------------------------------------------------------
(* Ingestion claims *)

\* the number of processed files whose result has the given status
CountStatus(status) ==
    Cardinality({i \in 1..Len(dresults) : dresults[i].Status = status})

\* C10: in IngestDirectory every enumerated file is counted in
\* processed_files, every non-empty file that ingests successfully yields one
\* entry in successful_ingestions, and every empty file is recorded as
\* skipped and adds no entry to the error list (two non-empty files and one
\* empty file: processed_files = 3, two successes, zero errors).
C10_EmptyFileIsNoError ==
    dpc = "done" =>
        /\ dresp.ProcessedFiles = Len(dfiles)
        /\ Len(dresp.SuccessfulIngestions) = CountStatus("success")
        /\ \A i \in 1..Len(dfiles) :
              (dfiles[i].readable /\ dfiles[i].content = "")
                  => dresults[i].Status = "skipped"
        /\ Len(dresp.Errors) = CountStatus("failed")

\* the entries IngestDirectory's loop adds to the error list for the results
\* rs, in the order of rs
RECURSIVE ErrorsOf(_)
ErrorsOf(rs) ==
    IF Len(rs) = 0 THEN <<>>
    ELSE (IF rs[1].Error # ""
          THEN <<rs[1].FilePath \o ": " \o rs[1].Error>> ELSE <<>>)
         \o ErrorsOf(Tail(rs))

\* what the file at position i of the scan must have got as its outcome
OutcomeFits(i) ==
    /\ dresults[i].FilePath = dfiles[i].path
    /\ (~dfiles[i].readable) => dresults[i].Status = "failed"
    /\ (dfiles[i].readable /\ dfiles[i].content = "")
           => dresults[i].Status = "skipped"
    /\ (dfiles[i].readable /\ dfiles[i].content # "")
           => dresults[i].Status \in {"success", "failed"}

\* the chunks of the file at position i are in the collection
FileStored(i) ==
    LET docID == generateDocumentID(dfiles[i].path)
        docChunks == DocChunks(docID, ChunkBySentences(isvc, dfiles[i].content))
    IN  \A k \in 1..Len(docChunks) :
            /\ docChunks[k].ID \in DOMAIN dstore
            /\ dstore[docChunks[k].ID] = docChunks[k]

\* C11: in IngestDirectory a failure on one file never aborts the batch:
\* every enumerated file gets exactly one outcome, files after a failed one
\* are still ingested, the call itself returns no error (it fails only when
\* the scan fails), and the error list is in file-enumeration order.
C11_BatchNotAbortedByFileFailure ==
    /\ dpc = "failed" => ~dexists
    /\ dpc = "loop" => Len(dresults) = didx - 1
    /\ dpc \in {"loop", "done"} =>
          /\ \A i \in 1..Len(dresults) : OutcomeFits(i)
          /\ \A i \in 1..Len(dresults) :
                dresults[i].Status = "success" => FileStored(i)
          /\ derrors = ErrorsOf(dresults)
    /\ dpc = "done" =>
          /\ Len(dresults) = Len(dfiles)
          /\ dresp.Errors = ErrorsOf(dresults)
          /\ dresp.ProcessedFiles = Len(dfiles)

\* a batch whose first file failed, whose second file was ingested and stored
\* and whose third file failed again
C11_Witness ==
    /\ dpc = "done"
    /\ Len(dresults) = 3
    /\ dresults[1].Status = "failed"
    /\ dresults[2].Status = "success"
    /\ dresults[3].Status = "failed"
    /\ Len(dresp.Errors) = 2
    /\ dstore # NoMap

---------------------------------------------------------------------------
(* Document ingestion claims *)

\* every chunk of cs is in the collection st as it was written
AllWritten(st, cs) ==
    \A k \in 1..Len(cs) : cs[k].ID \in DOMAIN st /\ st[cs[k].ID] = cs[k]

\* C12: IngestDocument is all-or-nothing per document: a call that ends
\* with an error (read, embedding or upsert failure) returns count 0 and
\* none of its steps has written to the store; a call that ends without
\* error returns the number of chunks and every chunk is in the store; the
\* store changes only in the step in which a call's upsert succeeds.
C12_IngestAllOrNothing ==
    [][/\ \A p \in Slots :
            /\ (qpc[p] # "failed" /\ qpc'[p] = "failed")
                  => /\ qstore' = qstore
                     /\ qret'[p].count = 0
                     /\ qret'[p].err # ""
            /\ (qpc[p] # "done" /\ qpc'[p] = "done")
                  => /\ qret'[p].err = ""
                     /\ qret'[p].count = Len(qchunks'[p])
                     /\ AllWritten(qstore', qchunks'[p])
       /\ qstore' # qstore
             => \E r \in Slots : qpc[r] = "upsert" /\ qpc'[r] = "done"
      ]_vars

\* a call with two chunks whose upsert failed: neither chunk is in the store
C12_Witness ==
    \E p \in Slots :
        /\ qpc[p] = "failed"
        /\ qext[p] = 2
        /\ Len(qchunks[p]) = 2
        /\ \A k \in 1..2 : qchunks[p][k].ID \notin DOMAIN qstore

\* the store holds at most one chunk per (document id, chunk index), under
\* the id computed from that pair
OneChunkPerPair(st) ==
    /\ \A id \in DOMAIN st :
          id = GenerateChunkID(st[id].DocumentID, st[id].ChunkIndex)
    /\ \A id1, id2 \in DOMAIN st :
          (/\ st[id1].DocumentID = st[id2].DocumentID
           /\ st[id1].ChunkIndex = st[id2].ChunkIndex) => id1 = id2

\* C13: after any sequence of ingest operations the store holds at most one
\* chunk per (document_id, chunk_index) pair, the chunk id being a function
\* of that pair only; an ingest writes exactly the ids of its chunks, and
\* re-ingesting a document whose chunks are already stored with the same
\* content leaves the stored chunks unchanged.
C13_OneChunkPerDocumentIndex ==
    /\ []OneChunkPerPair(qstore)
    /\ [][\A p \in Slots :
             (qpc[p] = "upsert" /\ qpc'[p] = "done")
                => /\ DOMAIN qstore' =
                         DOMAIN qstore
                         \cup {GenerateChunkID(qreq[p].docID, k - 1) :
                                   k \in 1..Len(qchunks[p])}
                   /\ AllWritten(qstore, qchunks[p]) => qstore' = qstore
         ]_vars

\* the same non-empty document was ingested twice with the same content,
\* after an ingest of it with another content
C13_Witness ==
    /\ Len(qlog) = 3
    /\ qlog[2] = qlog[3]
    /\ qlog[1].docID = qlog[2].docID
    /\ qlog[1].content # qlog[2].content
    /\ qlog[1].content # ""
    /\ qlog[2].content # ""
    /\ Cardinality(DOMAIN qstore) = 2

---------------------------------------------------------------------------
(* Document id validation *)

\* C16: IngestText / IngestDocument called with an empty document id is
\* rejected with an error before any call to the embedding provider or the
\* vector store is made, and stores nothing.
C16_EmptyDocumentIdRejected ==
    /\ \A p \in Slots :
          (qpc[p] # "idle" /\ qreq[p].docID = "")
              => /\ qext[p] = 0
                 /\ qpc[p] \in {"failed"}
                 /\ qret[p].err # ""
    /\ \A id \in DOMAIN qstore : qstore[id].DocumentID # ""

---------------------------------------------------------------------------
(* Concurrent ingestion *)

\* the store after ingesting the requests of log one at a time, in order
RECURSIVE SerialStore(_, _)
SerialStore(log, st) ==
    IF Len(log) = 0 THEN st
    ELSE SerialStore(Tail(log),
                     IngestDocument(qsvc, st, log[1].docID, log[1].content,
                                    "ok").store)

\* C17: for any interleaving of concurrent ingest requests the store equals
\* the result of executing the requests one at a time in some order (the
\* order in which their upserts were applied; failed requests write
\* nothing), and a step of a request never alters or removes a chunk of
\* another document id.
C17_ConcurrentIngestsSerializable ==
    /\ [](qstore = SerialStore(qlog, NoMap))
    /\ [][\A p \in Slots :
             qpc'[p] # qpc[p]
                => \A id \in DOMAIN qstore :
                      qstore[id].DocumentID # qreq'[p].docID
                          => (id \in DOMAIN qstore' /\ qstore'[id] = qstore[id])
         ]_vars

\* two requests for distinct documents are both finished, the one in the
\* second slot having been applied first; the chunks of both are stored
C17_Witness ==
    /\ qn = 2
    /\ qpc[1] = "done"
    /\ qpc[2] = "done"
    /\ qreq[1].docID # qreq[2].docID
    /\ qlog = <<qreq[2], qreq[1]>>
    /\ Len(qchunks[1]) = 2
    /\ Len(qchunks[2]) = 2
    /\ AllWritten(qstore, qchunks[1])
    /\ AllWritten(qstore, qchunks[2])

---------------------------------------------------------------------------
(* RAG query claims *)

\* the stages of a query that runs to the end
ExpectedStages ==
    IF ScoreLess(ZeroScore, areq.Threshold)
    THEN <<"retrieve", "rank", "filter", "generate">>
    ELSE <<"retrieve", "rank", "generate">>

IsPrefix(s, t) == Len(s) <= Len(t) /\ SubSeq(t, 1, Len(s)) = s

\* C14: a RAG query runs its stages in the order retrieve, rank, threshold
\* filter (only when threshold > 0), generate; when a stage fails no later
\* stage is invoked, the generation provider is not called after a failure
\* of an earlier stage, and the request ends with an error tagged with the
\* failed stage.
C14_StagesInOrder ==
    /\ IsPrefix(atrace, ExpectedStages)
    /\ acalls <= 1
    /\ acalls = 1 => atrace = ExpectedStages
    /\ aresp.Error = "invalid_request" => (apc = "done" /\ atrace = <<>>)
    /\ aresp.Error = "retrieval_failed"
          => (apc = "done" /\ atrace = <<"retrieve">> /\ acalls = 0)
    /\ aresp.Error = "ranking_failed"
          => (apc = "done" /\ atrace = <<"retrieve", "rank">> /\ acalls = 0)
    /\ aresp.Error = "generation_failed"
          => (apc = "done" /\ atrace = ExpectedStages /\ acalls = 1)
    /\ apc = "done"
          => /\ aresp.Code \in {200, 400, 500}
             /\ aresp.Code = 200 <=> aresp.Error = ""
             /\ aresp.Code = 200 => atrace = ExpectedStages
             /\ aresp.Code = 500
                   => aresp.Error \in {"retrieval_failed", "ranking_failed",
                                        "generation_failed"}

\* a query whose retrieval failed: no stage after it, no provider call
C14_Witness ==
    /\ apc = "done"
    /\ aresp = [Code |-> 500, Error |-> "retrieval_failed"]
    /\ atrace = <<"retrieve">>
    /\ acalls = 0

---------------------------------------------------------------------------
(* Collection claims *)

\* C15: CreateCollection called with a non-positive vectorSize is rejected
\* with a validation error before any call to the engine is made, and no
\* collection is created.
C15_NonPositiveSizeRejected ==
    marg <= 0 =>
        /\ mcalls = <<>>
        /\ mpc = "done" => merr # ""

---------------------------------------------------------------------------
(* Threshold filter claims *)

\* the positions of finput whose score is at least the threshold
KeptPositions ==
    {k \in 1..Len(finput) : ~ScoreLess(finput[k].score, fthreshold)}

\* the i-th smallest element of a set of positions
NthPosition(S, i) == CHOOSE k \in S : Cardinality({j \in S : j <= k}) = i

\* C21: FilterByThreshold returns an order-preserving subsequence of its
\* input that contains exactly the elements whose score is >= the threshold.
C21_FilterKeepsExactlyAtLeastThreshold ==
    fpc = "done" =>
        /\ Len(foutput) = Cardinality(KeptPositions)
        /\ \A i \in 1..Len(foutput) :
              foutput[i] = finput[NthPosition(KeptPositions, i)]

\* an unsorted input of which the first and the third element are kept, one
\* of them with a score equal to the threshold, and the second is removed
C21_Witness ==
    /\ fpc = "done"
    /\ Len(finput) = 3
    /\ fthreshold = [num |-> 1, den |-> 2]
    /\ finput[1].score = [num |-> 1, den |-> 2]
    /\ finput[2].score = [num |-> 1, den |-> 3]
    /\ finput[3].score = [num |-> 2, den |-> 2]
    /\ Len(foutput) = 2
    /\ foutput[1].chunk.ID = 1
    /\ foutput[2].chunk.ID = 3

---------------------------------------------------------------------------
(* Source extraction claims *)

\* the position of the first chunk of document d in sinput
FirstSeen(d) ==
    CHOOSE i \in 1..Len(sinput) :
        /\ sinput[i].DocumentID = d
        /\ \A j \in 1..(i - 1) : sinput[j].DocumentID # d

\* C22: the sources are the document ids of the ranked chunks deduplicated
\* in first-seen order: every document id of an input chunk appears exactly
\* once, nothing else appears, and the ids are ordered by the position of
\* their first occurrence in the input, not by score.
C22_SourcesFirstSeenOrder ==
    spc = "done" =>
        /\ {soutput[i] : i \in 1..Len(soutput)}
              = {sinput[i].DocumentID : i \in 1..Len(sinput)}
        /\ \A i, j \in 1..Len(soutput) : i # j => soutput[i] # soutput[j]
        /\ \A i, j \in 1..Len(soutput) :
              i < j => FirstSeen(soutput[i]) < FirstSeen(soutput[j])

\* d2, d1, d2 with the chunk of d1 scoring highest: the sources are d2, d1
C22_Witness ==
    /\ spc = "done"
    /\ Len(sinput) = 3
    /\ sinput[1].DocumentID = "d2" /\ sinput[1].Score = ZeroScore
    /\ sinput[2].DocumentID = "d1" /\ sinput[2].Score = OneScore
    /\ sinput[3].DocumentID = "d2" /\ sinput[3].Score = ZeroScore
    /\ soutput = <<"d2", "d1">>

---------------------------------------------------------------------------
(* Embedding claims *)

\* what GenerateEmbeddings returned without an error is one vector per text,
\* in order, each computed from its text and of the provider's dimension
OneVectorPerText ==
    /\ Len(eembs) = Len(etexts)
    /\ \A i \in 1..Len(etexts) : eembs[i] = Vector(etexts[i], edim)

\* C23: a StoreChunks call either fails with an error, or every point it
\* upserts carries a vector of the provider's dimension computed from the
\* content of that same chunk; the batch embedding call returns one
\* non-empty vector per input text in input order, or an error.
C23_OneVectorPerChunk ==
    /\ (epc \in {"points", "upsert", "panic"} \/ (epc = "done" /\ eerr = ""
            /\ etexts # <<>>))
          => OneVectorPerText
    /\ epc # "panic"
    /\ \A i \in 1..Len(estored) :
          estored[i].Vectors = Vector(estored[i].Content, edim)
---------------------------------------------------------------------------
(* Document id claims *)

\* C24: the document id of a path is the path with every separator replaced
\* by '_' and a leading "./" stripped: a path written with a leading "./"
\* gets the id of the path without it, and from a path without a leading
\* "./" nothing is removed.
C24_DocumentIdStripsOnlyDotSlash ==
    ppc = "done" =>
        IF HasPrefix(ppath, "./")
        THEN pid = generateDocumentID(Slice(ppath, 2, Len(ppath)))
        ELSE pid = ReplaceAll(ppath, "/", "_")
---------------------------------------------------------------------------
(* Break point claims *)

\* the positions of the second half of the window [bstart, bstart+chunkSize)
SecondHalf ==
    {i \in 0..(Len(btext) - 1) :
        /\ i > bstart + bsvc.chunkSize \div 2
        /\ i < bstart + bsvc.chunkSize}

SentenceEnds ==
    {i \in SecondHalf : /\ At(btext, i) \in {".", "!", "?"}
                        /\ i + 1 < Len(btext)
                        /\ At(btext, i + 1) \in {" ", "\n", "\t"}}
Newlines == {i \in SecondHalf : At(btext, i) = "\n"}
Whitespaces == {i \in SecondHalf : At(btext, i) \in {" ", "\n", "\t"}}

\* p is the last position of S
IsLast(p, S) == p \in S /\ \A q \in S : q <= p

\* C25: the break point is just after the last sentence terminator followed
\* by whitespace in the second half of the window; with none there, just
\* after the last newline there; with none, just after the last whitespace
\* there; with none, the raw window end.  A sentence end wins over a later
\* whitespace.
C25_BreakPointPriority ==
    bpc = "done" =>
        IF SentenceEnds # {} THEN IsLast(bend - 1, SentenceEnds)
        ELSE IF Newlines # {} THEN IsLast(bend - 1, Newlines)
        ELSE IF Whitespaces # {} THEN IsLast(bend - 1, Whitespaces)
        ELSE bend = bstart + bsvc.chunkSize

\* a sentence end was taken although a whitespace comes later in the window
C25_Witness ==
    /\ bpc = "done"
    /\ SentenceEnds # {}
    /\ \E w \in Whitespaces : w > bend - 1
    /\ bend < bstart + bsvc.chunkSize
---------------------------------------------------------------------------
(* Re-ingestion claims *)

\* the chunks stored under document id d
StoredUnder(d) == {hstore[id] : id \in {i \in DOMAIN hstore : hstore[i].DocumentID = d}}

\* the chunks the most recent successful ingest of d produced, less the
\* ones a later delete removed
LastIngested(d) == hlast[d]

\* C26: after any sequence of ingests and deletes, the chunks stored under
\* a document id are exactly the chunks of the most recent successful
\* ingest of that id; a re-ingest with fewer chunks leaves no chunk of the
\* earlier version.
C26_NoStaleChunks ==
    \A d \in HistDocIds : StoredUnder(d) = LastIngested(d)
---------------------------------------------------------------------------
(* Document ids within one directory ingestion *)

\* the chunks file i of the batch stored are still the stored ones
StillStored(i) ==
    LET docChunks ==
            DocChunks(wresults[i].DocumentID,
                      ChunkBySentences(wsvc, wfiles[i].content))
    IN  \A k \in 1..Len(docChunks) :
           /\ docChunks[k].ID \in DOMAIN wstore
           /\ wstore[docChunks[k].ID] = docChunks[k]

\* C27: within one directory ingestion two distinct enumerated paths get
\* distinct document ids, and no file of the batch overwrites the chunks of
\* another file of the batch.
C27_DistinctPathsDistinctIds ==
    /\ \A i, j \in 1..Len(wresults) :
          wresults[i].FilePath # wresults[j].FilePath
             => wresults[i].DocumentID # wresults[j].DocumentID
    /\ \A i \in 1..Len(wresults) :
          wresults[i].Status = "success" => StillStored(i)
---------------------------------------------------------------------------
(* Sentence chunking claims *)

\* s with all whitespace removed
RECURSIVE WithoutSpace(_)
WithoutSpace(s) ==
    IF Len(s) = 0 THEN ""
    ELSE (IF IsSpace(At(s, 0)) THEN "" ELSE At(s, 0))
         \o WithoutSpace(Slice(s, 1, Len(s)))

\* the concatenation of a list of strings
RECURSIVE ConcatAll(_)
ConcatAll(ss) == IF Len(ss) = 0 THEN "" ELSE Head(ss) \o ConcatAll(Tail(ss))

\* C28: ChunkBySentences loses no content: the concatenation of the chunks
\* with all whitespace removed is the input text with all whitespace
\* removed.
C28_SentenceChunksKeepContent ==
    npc = "done" => WithoutSpace(ConcatAll(nchunks)) = WithoutSpace(ntext)
---------------------------------------------------------------------------
(* Directory response claims *)

\* how many entries of the error list / of the success list are about file i
ErrorEntries(i) ==
    Cardinality({k \in 1..Len(dresp.Errors) :
                    HasPrefix(dresp.Errors[k], dfiles[i].path \o ": ")})
SuccessEntries(i) ==
    Cardinality({k \in 1..Len(dresp.SuccessfulIngestions) :
                    dresp.SuccessfulIngestions[k].DocumentID
                        = generateDocumentID(dfiles[i].path)})

\* C29: the response of IngestDirectory has len(successful_ingestions) +
\* len(errors) = processed_files, and every enumerated file is reported
\* exactly once, as a successful ingestion or as an error entry.
C29_EveryFileReportedOnce ==
    /\ dpc = "loop" => Len(dsuccess) + Len(derrors) = didx - 1
    /\ dpc = "done" =>
          /\ Len(dresp.SuccessfulIngestions) + Len(dresp.Errors)
                = dresp.ProcessedFiles
          /\ \A i \in 1..Len(dfiles) : ErrorEntries(i) + SuccessEntries(i) = 1

\* a batch of three files: one ingested, one skipped as empty, one failed
C29_Witness ==
    /\ dpc = "done"
    /\ dresp.ProcessedFiles = 3
    /\ CountStatus("success") = 1
    /\ CountStatus("skipped") = 1
    /\ CountStatus("failed") = 1
    /\ Len(dresp.SuccessfulIngestions) = 1
    /\ Len(dresp.Errors) = 2
---------------------------------------------------------------------------
(* Ranker claims: the output is a sorted permutation *)

\* the positions of the output that hold input chunk k
PositionsOf(k) == {i \in 1..Len(ranked) : ranked[i].chunk = rchunks[k]}

\* C30: RankChunks returns a permutation of its input in non-increasing
\* score order: same length, every input chunk exactly once with the score
\* computed for it, and the score at i is >= the score at j for i < j.
C30_RankedIsSortedPermutation ==
    rpc = "done" =>
        /\ Len(ranked) = Len(rchunks)
        /\ \A k \in 1..Len(rchunks) :
              /\ Cardinality(PositionsOf(k)) = 1
              /\ \A i \in PositionsOf(k) :
                    ranked[i].score
                        = calculateRelevanceScore(rquery, rchunks[k].Content)
        /\ \A i, j \in 1..Len(ranked) :
              i < j => ~ScoreLess(ranked[i].score, ranked[j].score)

\* three chunks came back in the reverse of their input order
C30_Witness ==
    /\ rpc = "done"
    /\ Len(ranked) = 3
    /\ ranked[1].chunk.ID = 3
    /\ ranked[3].chunk.ID = 1
    /\ ScoreLess(ranked[3].score, ranked[1].score)
===========================================================================
